---------------------------- MODULE Spec2Model ----------------------------
(***************************************************************************)
(* A model of the ASR error-correction package: the mixed-script          *)
(* tokenizer, the IPA converter that builds GraphemePhoneme values, the    *)
(* GraphemePhoneme span algebra, and ASRCorrector.correct() with its       *)
(* process-pool fan-out of one alignment task per lexicon entry.           *)
(*                                                                         *)
(* A character is a one-element token: an ASCII character stands for       *)
(* itself, a non-ASCII character is named by its code point ("U4F60").     *)
(* A Python str is a sequence of characters, with 0-based half-open        *)
(* offsets exactly as in the source.                                       *)
(***************************************************************************)
EXTENDS Integers, Sequences, FiniteSets, TLC

(***************************************************************************)
(* Bounds of the model.                                                    *)
(***************************************************************************)
MaxEntries == 3

MaxConcurrency == 3

MaxMatches == 3

(***************************************************************************)
(* Python helpers.                                                         *)
(***************************************************************************)
Min(a, b) == IF a <= b THEN a ELSE b

Max(a, b) == IF a >= b THEN a ELSE b

\* s[a:b] of a Python sequence: negative indices count from the end, and
\* both ends are clamped to 0..len(s).
PySlice(s, a, b) ==
    LET n  == Len(s)
        lo == IF a < 0 THEN Max(a + n, 0) ELSE Min(a, n)
        hi == IF b < 0 THEN Max(b + n, 0) ELSE Min(b, n)
    IN  IF lo >= hi THEN <<>> ELSE SubSeq(s, lo + 1, hi)

\* s[a:]
PySliceFrom(s, a) == PySlice(s, a, Len(s))

RECURSIVE Join(_)
\* "".join(parts)
Join(parts) ==
    IF parts = <<>> THEN <<>> ELSE Head(parts) \o Join(Tail(parts))

RECURSIVE JoinWith(_, _)
\* sep.join(parts)
JoinWith(sep, parts) ==
    IF parts = <<>> THEN <<>>
    ELSE IF Len(parts) = 1 THEN Head(parts)
    ELSE Head(parts) \o sep \o JoinWith(sep, Tail(parts))

\* [f(x) for x in s if keep(x)] is SelectSeq; [x for x in s] over an index
\* range is written with a function constructor.
Range(s) == {s[i] : i \in DOMAIN s}

(***************************************************************************)
(* Character classes (conversion.py:16-19, 39-41, 170-174).                *)
(***************************************************************************)
\* U4F60, U597D, U4E16: ideographs of the ranges 3400-4DBF and 4E00-9FFF.
ChineseChars == {"U4F60", "U597D", "U4E16"}

LatinUpper == {"A", "B", "N", "S"}

LatinLower == {"a", "b", "c", "d", "e", "h", "n", "z", "l", "o"}

LatinLetters == LatinUpper \cup LatinLower

\* U044F is a Cyrillic lower-case letter, U042F its upper case: letters for
\* str.isalpha(), outside A-Za-z and outside the ideograph ranges.
OtherLowerLetters == {"U044F"}

OtherUpperLetters == {"U042F"}

\* U02C8, U02CC: the primary and secondary stress marks.
StressChars == {"U02C8", "U02CC"}

\* The digits 0-5 and the five tone letters U02E5..U02E9.
ToneChars == {"0", "1", "2", "3", "4", "5",
              "U02E5", "U02E6", "U02E7", "U02E8", "U02E9"}

WhitespaceChars == {" "}

\* Characters whose Unicode category starts with P.
PunctuationChars == {"(", ")", "!", ",", "-", "."}

\* The stress marks are modifier letters (category Lm): letters too.
IsAlphaChar(c) ==
    c \in LatinLetters \cup OtherLowerLetters \cup OtherUpperLetters
          \cup ChineseChars \cup StressChars

IsUpperChar(c) == c \in LatinUpper \cup OtherUpperLetters

IsLowerChar(c) == c \in LatinLower \cup OtherLowerLetters

\* str.isalpha(): non-empty and every character a letter.
IsAlphaStr(s) == s # <<>> /\ \A i \in DOMAIN s : IsAlphaChar(s[i])

\* str.isupper(): at least one cased character and no lower-case one.
IsUpperStr(s) ==
    /\ \E i \in DOMAIN s : IsUpperChar(s[i])
    /\ \A i \in DOMAIN s : ~IsLowerChar(s[i])

RECURSIVE LStrip(_)
LStrip(s) ==
    IF s # <<>> /\ Head(s) \in WhitespaceChars THEN LStrip(Tail(s)) ELSE s

RECURSIVE RStrip(_)
RStrip(s) ==
    IF s # <<>> /\ s[Len(s)] \in WhitespaceChars
    THEN RStrip(SubSeq(s, 1, Len(s) - 1)) ELSE s

\* str.strip()
Strip(s) == RStrip(LStrip(s))

\* str.translate(table) with a table that deletes the characters of drop.
DeleteChars(s, drop) == SelectSeq(s, LAMBDA c : c \notin drop)

(***************************************************************************)
(* Tokenization (conversion.py:16-36, 60-63; tokenization.py).             *)
(***************************************************************************)
\* The alternative of _TOKEN_RE a character belongs to.
TokenClass(c) ==
    IF c \in ChineseChars THEN "chinese"
    ELSE IF c \in LatinLetters THEN "latin"
    ELSE "other"

RECURSIVE RunEnd(_, _, _)
\* The end offset of the maximal run of class cls that starts at offset i.
RunEnd(text, i, cls) ==
    IF i < Len(text) /\ TokenClass(text[i + 1]) = cls
    THEN RunEnd(text, i + 1, cls)
    ELSE i

RECURSIVE TokenizeFrom_letters_only(_, _)
\* The matches of a pattern without its third alternative: runs of other
\* characters are skipped.
TokenizeFrom_letters_only(text, pos) ==
    IF pos >= Len(text) THEN <<>>
    ELSE LET end == RunEnd(text, pos, TokenClass(text[pos + 1]))
         IN  (IF TokenClass(text[pos + 1]) = "other" THEN <<>>
              ELSE <<[raw |-> PySlice(text, pos, end), start |-> pos,
                      end |-> end]>>)
             \o TokenizeFrom_letters_only(text, end)

RECURSIVE TokenizeFrom(_, _)
TokenizeFrom(text, pos) ==
    IF pos >= Len(text) THEN <<>>
    ELSE LET end == RunEnd(text, pos, TokenClass(text[pos + 1]))
         IN  <<[raw |-> PySlice(text, pos, end), start |-> pos, end |-> end]>>
             \o TokenizeFrom(text, end)

\* IPAConverter.tokenize / tokenize_mixed_text
tokenize(text) == TokenizeFrom(text, 0)

\* TokenizedSegment.is_chinese
is_chinese(seg) ==
    seg.raw # <<>> /\ \A i \in DOMAIN seg.raw : seg.raw[i] \in ChineseChars

\* TokenizedSegment.is_alpha
is_alpha(seg) == IsAlphaStr(seg.raw)

(***************************************************************************)
(* GraphemePhoneme (models.py:14-140).  A span is <<start, end>>.          *)
(***************************************************************************)
\* An optional value is a sequence of at most one element: None (or the
\* exception that left no instance) is the empty sequence.
NoneValue == <<>>

Some(v) == <<v>>

\* __post_init__ without its last check (phoneme_str is the concatenation).
PostInitOk_without_concatenation(gl, ps, pl, gsp, psp) ==
    /\ Len(gl) = Len(pl)
    /\ Len(gsp) = Len(gl)
    /\ Len(psp) = Len(pl)

\* GraphemePhoneme.__post_init__: the four checks, in order.
PostInitOk(gl, ps, pl, gsp, psp) ==
    /\ Len(gl) = Len(pl)
    /\ Len(gsp) = Len(gl)
    /\ Len(psp) = Len(pl)
    /\ Join(pl) = ps

\* The dataclass constructor: the instance, or no instance when
\* __post_init__ raises ValueError.
GraphemePhoneme(gs, gl, ps, pl, gsp, psp) ==
    IF PostInitOk(gl, ps, pl, gsp, psp)
    THEN Some([grapheme_str |-> gs, grapheme_list |-> gl, phoneme_str |-> ps,
               phoneme_list |-> pl, grapheme_spans |-> gsp,
               phoneme_spans |-> psp])
    ELSE NoneValue

RECURSIVE CumulativeSpans(_, _)
\* Spans of consecutive values laid end to end from offset position.
CumulativeSpans(values, position) ==
    IF values = <<>> THEN <<>>
    ELSE <<<<position, position + Len(Head(values))>>>>
         \o CumulativeSpans(Tail(values), position + Len(Head(values)))

\* The units whose phoneme span overlaps or touches start..end.
covering_indices_touching(gp, start, end) ==
    {idx \in DOMAIN gp.phoneme_spans :
        /\ gp.phoneme_spans[idx][2] >= start
        /\ gp.phoneme_spans[idx][1] <= end}

\* indices of subsequence_covering_span: the units whose phoneme span
\* overlaps start..end.
covering_indices(gp, start, end) ==
    {idx \in DOMAIN gp.phoneme_spans :
        /\ gp.phoneme_spans[idx][2] > start
        /\ gp.phoneme_spans[idx][1] < end}

\* <<first_graph_start, last_graph_end>> of subsequence_covering_span: the
\* grapheme range the returned object covers, or none where it returns None.
covering_range(gp, start, end) ==
    IF start >= end \/ covering_indices(gp, start, end) = {} THEN NoneValue
    ELSE LET indices == covering_indices(gp, start, end)
             first_idx == CHOOSE i \in indices : \A j \in indices : i <= j
             last_idx  == CHOOSE i \in indices : \A j \in indices : i >= j
         IN  Some(<<gp.grapheme_spans[first_idx][1],
                    gp.grapheme_spans[last_idx][2]>>)

\* GraphemePhoneme.subsequence_covering_span
subsequence_covering_span(gp, start, end) ==
    IF start >= end THEN NoneValue
    ELSE
    LET indices == covering_indices(gp, start, end)
    IN  IF indices = {} THEN NoneValue
        ELSE
        LET first_idx == CHOOSE i \in indices : \A j \in indices : i <= j
            last_idx  == CHOOSE i \in indices : \A j \in indices : i >= j
            first_graph_start == gp.grapheme_spans[first_idx][1]
            last_graph_end    == gp.grapheme_spans[last_idx][2]
            sub_phoneme_list  == SubSeq(gp.phoneme_list, first_idx, last_idx)
            sub_spans == SubSeq(gp.grapheme_spans, first_idx, last_idx)
        IN  GraphemePhoneme(
              PySlice(gp.grapheme_str, first_graph_start, last_graph_end),
              SubSeq(gp.grapheme_list, first_idx, last_idx),
              Join(sub_phoneme_list),
              sub_phoneme_list,
              [k \in DOMAIN sub_spans |->
                  <<sub_spans[k][1] - first_graph_start,
                    sub_spans[k][2] - first_graph_start>>],
              CumulativeSpans(sub_phoneme_list, 0))

\* str.find(sub, start): the least offset from start on at which sub
\* occurs in s, or -1.
Find(s, sub, start) ==
    LET hits == {i \in start..(Len(s) - Len(sub)) :
                    SubSeq(s, i + 1, i + Len(sub)) = sub}
    IN  IF hits = {} THEN -1
        ELSE CHOOSE i \in hits : \A j \in hits : i <= j

RECURSIVE LocateSpans(_, _, _)
\* The first loop of from_components: the spans of the graphemes found one
\* after the other from cursor on; none when one is not found.
LocateSpans(grapheme_str, grapheme_list, cursor) ==
    IF grapheme_list = <<>> THEN Some(<<>>)
    ELSE LET index == Find(grapheme_str, Head(grapheme_list), cursor)
             end == index + Len(Head(grapheme_list))
             rest == LocateSpans(grapheme_str, Tail(grapheme_list), end)
         IN  IF index = -1 \/ rest = NoneValue THEN NoneValue
             ELSE Some(<<<<index, end>>>> \o rest[1])

\* GraphemePhoneme.from_components: the instance, or none when it raises
\* ValueError.
from_components(grapheme_str, grapheme_list, phoneme_str, phoneme_list) ==
    LET located == LocateSpans(grapheme_str, grapheme_list, 0)
    IN  IF located = NoneValue THEN NoneValue
        ELSE GraphemePhoneme(grapheme_str, grapheme_list, phoneme_str,
                             phoneme_list, located[1],
                             CumulativeSpans(phoneme_list, 0))

\* GraphemePhoneme.to_dict
to_dict(gp) ==
    [grapheme_str |-> gp.grapheme_str, grapheme_list |-> gp.grapheme_list,
     phoneme_str |-> gp.phoneme_str, phoneme_list |-> gp.phoneme_list]

\* GraphemePhoneme.from_dict
from_dict(payload) ==
    from_components(payload.grapheme_str, payload.grapheme_list,
                    payload.phoneme_str, payload.phoneme_list)

(***************************************************************************)
(* IPAConverter (conversion.py:44-174).  A converter is the record of its  *)
(* four options.  The two phoneticizers are external libraries; they are   *)
(* modelled by the stand-ins the test-suite installs for them.             *)
(*                                                                         *)
(* phoneticizer names the functions installed as conversion.hanzi_to_ipa   *)
(* and conversion.eng_to_ipa_convert: "echo" is the pair the tests         *)
(* install ("zh(" text ")", "en(" token ")"); "sparse" is the same pair    *)
(* except that it has no pronunciation for the SilentTokens and returns    *)
(* the empty string for them; "padded" is the same pair except that the    *)
(* English function ends its answer with a space, which the strip() of     *)
(* _convert_english is there to remove; "marked" is the same pair except   *)
(* that every answer starts with a primary stress mark and ends with a     *)
(* tone digit, as the answers of the real libraries and of the stand-ins   *)
(* of test_ipa_converter_can_strip_markers do.                             *)
(***************************************************************************)
VARIABLE phoneticizer

Phoneticizers == {"echo", "sparse", "padded", "marked"}

\* The tokens the sparse phoneticizers have no pronunciation for.
SilentTokens == {<<"U597D">>, <<"b", "a">>}

DefaultConverter ==
    [remove_tone_marks |-> FALSE, remove_stress_marks |-> FALSE,
     strip_whitespace |-> FALSE, remove_punctuation |-> FALSE]

\* dragonmapper.hanzi.to_ipa, as patched by the tests: "zh(" text ")".
hanzi_to_ipa(text) ==
    IF phoneticizer = "sparse" /\ text \in SilentTokens THEN <<>>
    ELSE IF phoneticizer = "marked"
         THEN <<"U02C8", "z", "h", "(">> \o text \o <<")", "1">>
         ELSE <<"z", "h", "(">> \o text \o <<")">>

\* eng_to_ipa.convert, as patched by the tests: "en(" token ")".
eng_to_ipa_convert(token) ==
    IF phoneticizer = "sparse" /\ token \in SilentTokens THEN <<>>
    ELSE IF phoneticizer = "padded"
         THEN <<"e", "n", "(">> \o token \o <<")", " ">>
         ELSE IF phoneticizer = "marked"
              THEN <<"U02C8", "e", "n", "(">> \o token \o <<")", "1">>
              ELSE <<"e", "n", "(">> \o token \o <<")">>

\* IPAConverter._convert_chinese
convert_chinese(text) == hanzi_to_ipa(text)

\* _convert_english without the acronym branch: every token as one word.
convert_english_whole_word(token) == eng_to_ipa_convert(token)

\* IPAConverter._convert_english
convert_english(token) ==
    IF IsUpperStr(token) /\ Len(token) > 1
    THEN LET letters == [i \in DOMAIN token |->
                            Strip(eng_to_ipa_convert(<<token[i]>>))]
         IN  JoinWith(<<" ">>, SelectSeq(letters, LAMBDA l : l # <<>>))
    ELSE eng_to_ipa_convert(token)

\* IPAConverter._apply_marker_options
apply_marker_options(conv, value) ==
    LET v1 == IF conv.remove_stress_marks
              THEN DeleteChars(value, StressChars) ELSE value
    IN  IF conv.remove_tone_marks THEN DeleteChars(v1, ToneChars) ELSE v1

\* IPAConverter._remove_punctuation
remove_punctuation(value) == DeleteChars(value, PunctuationChars)

\* _sanitize_phoneme leaving its argument as the options left it.
sanitize_phoneme_keeping_all(value) == value

\* IPAConverter._sanitize_phoneme
sanitize_phoneme(value) ==
    remove_punctuation(
        DeleteChars(DeleteChars(DeleteChars(value, StressChars), ToneChars),
                    WhitespaceChars))

\* The units of one token with the empty phonemes kept.
TokenUnits_keeping_empty(conv, token) ==
    IF is_chinese(token)
    THEN [k \in DOMAIN token.raw |->
             [grapheme |-> <<token.raw[k]>>,
              span     |-> <<token.start + k - 1, token.start + k>>,
              phoneme  |-> sanitize_phoneme(apply_marker_options(conv,
                               convert_chinese(<<token.raw[k]>>)))]]
    ELSE IF is_alpha(token)
    THEN <<[grapheme |-> token.raw,
            span     |-> <<token.start, token.end>>,
            phoneme  |-> sanitize_phoneme(apply_marker_options(conv,
                             convert_english(token.raw)))]>>
    ELSE <<>>

\* The units one token contributes in convert_to_grapheme_phoneme: a
\* sequence of [grapheme, span, phoneme], empty phonemes skipped.
TokenUnits(conv, token) ==
    IF is_chinese(token)
    THEN LET all == [k \in DOMAIN token.raw |->
                 [grapheme |-> <<token.raw[k]>>,
                  span     |-> <<token.start + k - 1, token.start + k>>,
                  phoneme  |-> sanitize_phoneme(apply_marker_options(conv,
                                   convert_chinese(<<token.raw[k]>>)))]]
         IN  SelectSeq(all, LAMBDA u : u.phoneme # <<>>)
    ELSE IF is_alpha(token)
    THEN LET sanitized == sanitize_phoneme(apply_marker_options(conv,
                              convert_english(token.raw)))
         IN  IF sanitized = <<>> THEN <<>>
             ELSE <<[grapheme |-> token.raw,
                     span     |-> <<token.start, token.end>>,
                     phoneme  |-> sanitized]>>
    ELSE <<>>

RECURSIVE AllUnits(_, _)
AllUnits(conv, tokens) ==
    IF tokens = <<>> THEN <<>>
    ELSE TokenUnits(conv, Head(tokens)) \o AllUnits(conv, Tail(tokens))

\* IPAConverter.convert_to_grapheme_phoneme
convert_to_grapheme_phoneme(conv, text) ==
    LET units == AllUnits(conv, tokenize(text))
        phoneme_list == [k \in DOMAIN units |-> units[k].phoneme]
    IN  GraphemePhoneme(
          text,
          [k \in DOMAIN units |-> units[k].grapheme],
          Join(phoneme_list),
          phoneme_list,
          [k \in DOMAIN units |-> units[k].span],
          CumulativeSpans(phoneme_list, 0))

\* IPAConverter._convert_segment
convert_segment(segment) ==
    IF is_chinese(segment) THEN convert_chinese(segment.raw)
    ELSE IF is_alpha(segment) THEN convert_english(segment.raw)
    ELSE segment.raw

\* The value one token contributes to the result of convert(): the empty
\* string for a token the first loop skips.
ConvertedValue(conv, token) ==
    IF is_alpha(token) \/ is_chinese(token)
    THEN apply_marker_options(conv, convert_segment(token))
    ELSE IF conv.remove_punctuation
         THEN remove_punctuation(convert_segment(token))
         ELSE convert_segment(token)

\* IPAConverter.convert
convert(conv, text) ==
    LET tokens == tokenize(text)
        result == Join([k \in DOMAIN tokens |-> ConvertedValue(conv, tokens[k])])
    IN  IF text = <<>> THEN <<>>
        ELSE IF conv.strip_whitespace
             THEN DeleteChars(result, WhitespaceChars)
             ELSE result

(***************************************************************************)
(* ASRCorrector: the pure parts (correction.py:46-55, 66-76, 110-157).     *)
(* An alignment result is [score, start, end]; a ReplacementPlan is        *)
(* [score, start, end, replacement], replacement being the lexicon entry.  *)
(***************************************************************************)
\* Lexicographic order on two integer tuples of the same length.
LexLess(a, b) ==
    \E k \in DOMAIN a :
        /\ a[k] < b[k]
        /\ \A j \in 1..(k - 1) : a[j] = b[j]

\* sorted(seq, key=...): the stable sort, keys[i] being the key of seq[i];
\* element i goes to the place given by the number of elements that sort
\* before it.
SortedBy(seq, keys) ==
    LET n == Len(seq)
        before(i) == {j \in 1..n :
                         \/ LexLess(keys[j], keys[i])
                         \/ keys[j] = keys[i] /\ j < i}
    IN  [p \in 1..n |->
            seq[CHOOSE i \in 1..n : Cardinality(before(i)) = p - 1]]

\* A score threshold is [comparable, value]: comparable is FALSE for a
\* value that does not order against a float (None, a str), for which
\* result.score < score_threshold raises TypeError.
Threshold(v) == [comparable |-> TRUE, value |-> v]

NotComparable == [comparable |-> FALSE, value |-> 0]

NoError == ""

\* BelowThreshold with the boundary on the wrong side: a score equal to the
\* threshold is skipped too.
BelowOrAtThreshold(result, score_threshold) ==
    result.score <= score_threshold.value

\* The loop body's test of _align_entry: the result is skipped.
BelowThreshold(result, score_threshold) ==
    result.score < score_threshold.value

\* What align() returns for one result: an AlignmentResult, or a tuple
\* (score, start, end, match).  A raw result is [form, score, start, end]:
\* form "tuple" is a tuple whose match is a models.GraphemePhoneme, form
\* "tuple_conversion_gp" a tuple whose match is a GraphemePhoneme of
\* conversion.py (what convert_to_grapheme_phoneme and the lexicon hold and
\* the aligner of tests/test_correction.py returns), which is no instance
\* of the class of models.py.
ResultForms == {"AlignmentResult", "tuple", "tuple_conversion_gp"}

\* The list an aligner returns, its responses reported in its form.
RawResults(responses, form) ==
    [k \in DOMAIN responses |->
        [form |-> form, score |-> responses[k].score,
         start |-> responses[k].start, end |-> responses[k].end]]

\* ASRCorrector._coerce_alignment_result: the AlignmentResult, or the
\* TypeError for a tuple whose match is not a models.GraphemePhoneme.
coerce_alignment_result(raw) ==
    IF raw.form = "tuple_conversion_gp"
    THEN [error |-> "TypeError", result |-> <<>>]
    ELSE [error |-> NoError,
          result |-> <<[score |-> raw.score, start |-> raw.start,
                        end |-> raw.end]>>]

RECURSIVE AlignEntryLoop(_, _, _, _)
\* The loop of _align_entry from raw_results on, replacements being the
\* plans appended so far: each raw result is coerced, then compared with
\* the threshold; either step may raise TypeError.
AlignEntryLoop(raw_results, entry, score_threshold, replacements) ==
    IF raw_results = <<>> THEN [error |-> NoError, plans |-> replacements]
    ELSE LET coerced == coerce_alignment_result(Head(raw_results))
         IN  IF coerced.error # NoError
             THEN [error |-> coerced.error, plans |-> <<>>]
             ELSE IF ~score_threshold.comparable
             THEN [error |-> "TypeError", plans |-> <<>>]
             ELSE IF BelowThreshold(coerced.result[1], score_threshold)
             THEN AlignEntryLoop(Tail(raw_results), entry, score_threshold,
                                 replacements)
             ELSE AlignEntryLoop(Tail(raw_results), entry, score_threshold,
                      Append(replacements,
                             [score |-> coerced.result[1].score,
                              start |-> coerced.result[1].start,
                              end |-> coerced.result[1].end,
                              replacement |-> entry]))

\* ASRCorrector._align_entry on the list the aligner returned: the list of
\* ReplacementPlans, or the TypeError of a coercion or of a comparison.
align_entry(raw_results, entry, score_threshold) ==
    AlignEntryLoop(raw_results, entry, score_threshold, <<>>)

CandidateKey(match) == <<0 - match.score, match.start, match.end>>

\* The sort that ends _candidate_replacements.
sort_candidates(candidates) ==
    SortedBy(candidates, [i \in DOMAIN candidates |-> CandidateKey(candidates[i])])

RECURSIVE MaxScore(_)
\* max(candidate.score for candidate in candidates), candidates non-empty.
MaxScore(candidates) ==
    IF Len(candidates) = 1 THEN candidates[1].score
    ELSE Max(candidates[1].score, MaxScore(Tail(candidates)))

\* best_matches without the selection: every candidate is kept.
best_matches_unselected(candidates) == candidates

\* best_matches of correct(): the candidates at the best score.
best_matches(candidates) ==
    SelectSeq(candidates, LAMBDA c : c.score = MaxScore(candidates))

\* The sort key with the ends ascending.
OverlapKey_ends_ascending(match) == <<match.start, match.end>>

OverlapKey(match) == <<match.start, 0 - match.end>>

RECURSIVE OverlapScan(_, _)
\* The loop of _filter_overlaps over the ordered matches.
OverlapScan(ordered, current_end) ==
    IF ordered = <<>> THEN <<>>
    ELSE IF Head(ordered).start < current_end
         THEN OverlapScan(Tail(ordered), current_end)
         ELSE <<Head(ordered)>> \o OverlapScan(Tail(ordered), Head(ordered).end)

\* _filter_overlaps without the scan: the ordered matches, all accepted.
filter_overlaps_unscanned(matches) ==
    SortedBy(matches, [i \in DOMAIN matches |-> OverlapKey(matches[i])])

\* _filter_overlaps with the scan starting from current_end = 1.
filter_overlaps_from_one(matches) ==
    OverlapScan(SortedBy(matches,
                         [i \in DOMAIN matches |-> OverlapKey(matches[i])]),
                1)

\* ASRCorrector._filter_overlaps
filter_overlaps(matches) ==
    OverlapScan(SortedBy(matches,
                         [i \in DOMAIN matches |-> OverlapKey(matches[i])]),
                -1)

RECURSIVE ReplacementParts(_, _, _)
\* The loop of _apply_replacements: the parts appended from cursor on.
ReplacementParts(text, matches, cursor) ==
    IF matches = <<>> THEN <<PySliceFrom(text, cursor)>>
    ELSE <<PySlice(text, cursor, Head(matches).start),
           Head(matches).replacement.grapheme_str>>
         \o ReplacementParts(text, Tail(matches), Head(matches).end)

\* _apply_replacements without the final parts.append(text[cursor:]).
apply_replacements_no_tail(text, matches) ==
    Join(SubSeq(ReplacementParts(text, matches, 0), 1, 2 * Len(matches)))

\* ASRCorrector._apply_replacements
apply_replacements(text, matches) == Join(ReplacementParts(text, matches, 0))

\* filtered_matches of correct(): the best-score candidates that overlap
\* resolution accepts (none when there is no candidate).
select_matches(candidates) ==
    IF candidates = <<>> THEN <<>>
    ELSE filter_overlaps(best_matches(candidates))

\* correct() returning the phoneme text when there is no candidate.
correct_from_candidates_phonemes(sentence_gp, candidates) ==
    IF candidates = <<>> THEN sentence_gp.phoneme_str
    ELSE IF select_matches(candidates) = <<>> THEN sentence_gp.grapheme_str
    ELSE apply_replacements(sentence_gp.grapheme_str,
                            select_matches(candidates))

\* correct() from the candidate list on (lines 43-55).
correct_from_candidates(sentence_gp, candidates) ==
    IF candidates = <<>> THEN sentence_gp.grapheme_str
    ELSE IF select_matches(candidates) = <<>> THEN sentence_gp.grapheme_str
    ELSE apply_replacements(sentence_gp.grapheme_str,
                            select_matches(candidates))

(***************************************************************************)
(* The corrector as a state machine.                                       *)
(*                                                                         *)
(* lexicon, score_threshold, aligner, use_concurrency are the fields of    *)
(* the ASRCorrector (the constructor's arguments while pc = "new").        *)
(* An aligner is [kind, pickle_error, falsy, form, responses]:             *)
(* responses[i] is what align(sentence_gp, entry i) returns; kind          *)
(* "barrier" is the aligner of tests/test_correction.py, whose align()     *)
(* first waits on a barrier with one party per lexicon entry; kind         *)
(* "LocalAlignment" is the aligner the constructor makes when it is given  *)
(* none, kind "None" the argument None; falsy tells whether the object is  *)
(* false in a boolean context; pickle_error is the exception               *)
(* pickle.dumps((sentence_gp, aligner)) raises, NoError if it succeeds.    *)
(* entry_pickle_error is the exception pickle raises for a lexicon entry   *)
(* that cannot be sent to a worker process, NoError for entries that can.  *)
(* public_call is the public method called, correct or                     *)
(* candidate_replacements; the other variables are the state of that call. *)
(***************************************************************************)
VARIABLES lexicon, score_threshold, aligner, use_concurrency,
          entry_pickle_error, barrier_broken,
          pc, error, public_call, sentence, sentence_gp, tasks, collected,
          next_entry, arrived, align_calls, candidates, filtered_matches,
          output,
          oracle, converter, segments, ipa, span, constructor_args, derived,
          alignment

config == <<lexicon, score_threshold, aligner, use_concurrency,
            entry_pickle_error>>

call == <<public_call, sentence, sentence_gp, tasks, collected, next_entry,
          arrived, align_calls, candidates, filtered_matches, output>>

\* What lives outside the package: the phoneticizers installed, oracle, the
\* list of alignments the alignment library returns, and barrier_broken,
\* whether the barrier the barrier aligner waits on is broken (a barrier,
\* once broken, stays broken from one correct() call to the next).
installed == <<phoneticizer, oracle, barrier_broken>>

\* The state of the conversions and alignments made outside correct(): the
\* IPAConverter in use, the segments of the last tokenize(), the string of
\* the last convert(), the last GraphemePhoneme derived from another one
\* (or constructed directly), the <<start, end>> given to
\* subsequence_covering_span if it was derived by it, the fields given to
\* the constructor if it was constructed directly, and the outcome of the
\* last LocalAlignment.align().
conversions ==
    <<converter, segments, ipa, span, constructor_args, derived, alignment>>

vars == <<config, pc, error, call, installed, conversions>>

\* The sentences correct() is called with: "", and a sentence of five
\* characters whose only unit is the ideograph U4F60 (phonemes 0..3).
Sentences == {<<>>, <<"U4F60", "!", " ", "1", ".">>}

\* Phrase i of the lexicon: U4E16 followed by i - 1 letters o.
Phrase(i) == <<"U4E16">> \o [k \in 1..(i - 1) |-> "o"]

\* The lexicon's entries are built by its converter.
Entry(i) == convert_to_grapheme_phoneme(DefaultConverter, Phrase(i))[1]

\* The results an aligner reports: the higher score at two ranges that
\* overlap, the lower score at a range apart from both.
Results ==
    {[score |-> 2, start |-> 0, end |-> 2],
     [score |-> 2, start |-> 1, end |-> 3],
     [score |-> 1, start |-> 3, end |-> 5]}

\* What one align() call returns: no result, or one.
ResponseLists == {<<>>} \cup {<<r>> : r \in Results}

Thresholds == {Threshold(1), Threshold(2), NotComparable}

\* The responses of the barrier aligner of the test: one result per entry,
\* (1.0, 0, 1) for the first entry, (2.0, 1, 2) for the second and
\* (2.0, 2, 4) for the third (a further entry one place to the right).
BarrierResponses(n) ==
    [i \in 1..n |-> <<[score |-> IF i = 1 THEN 1 ELSE 2,
                       start |-> i - 1,
                       end |-> IF i < 3 THEN i ELSE i + 1]>>]

\* What one align() call returns in a form that is refused whatever the
\* result says: no result, or one.
RefusedResponseLists == {<<>>, <<[score |-> 2, start |-> 0, end |-> 2]>>}

\* The exceptions of pickle.dumps that _should_parallelize catches.
PickleErrors == {"TypeError", "AttributeError", "PicklingError"}

\* What pickle.dumps((sentence_gp, aligner)) raises for an aligner that
\* comes to be called: nothing, or TypeError (an aligner holding a
\* threading lock), which _should_parallelize catches.
AlignerPickleErrors == {NoError, "TypeError"}

\* The aligners that are called: form is the form every result is returned
\* in.  A plain aligner returns AlignmentResults, or tuples holding a
\* GraphemePhoneme of conversion.py; the barrier aligner of the test
\* returns such tuples, and is taken here in the other two forms as well.
CalledAligners(n) ==
    {[kind |-> "plain", pickle_error |-> p, falsy |-> FALSE,
      form |-> "AlignmentResult", responses |-> r] :
        p \in AlignerPickleErrors, r \in [1..n -> ResponseLists]}
    \cup
    {[kind |-> "plain", pickle_error |-> p, falsy |-> FALSE,
      form |-> "tuple_conversion_gp", responses |-> r] :
        p \in AlignerPickleErrors, r \in [1..n -> RefusedResponseLists]}
    \cup
    {[kind |-> "barrier", pickle_error |-> p, falsy |-> FALSE, form |-> rf,
      responses |-> BarrierResponses(n)] :
        p \in AlignerPickleErrors, rf \in ResultForms}

\* The aligners no call reaches, one standing for all that answer
\* otherwise: an aligner that is false in a boolean context (a __len__
\* giving 0), which the constructor replaces, and the aligners whose
\* pickling raises RuntimeError (a plain one holding a multiprocessing
\* lock or with a __reduce__ that raises it, and the barrier aligner with
\* a multiprocessing barrier), which _should_parallelize does not catch.
UncalledAligners(n) ==
    {[kind |-> "plain", pickle_error |-> NoError, falsy |-> TRUE,
      form |-> "AlignmentResult", responses |-> [i \in 1..n |-> <<>>]],
     [kind |-> "plain", pickle_error |-> "RuntimeError", falsy |-> FALSE,
      form |-> "AlignmentResult", responses |-> [i \in 1..n |-> <<>>]],
     [kind |-> "barrier", pickle_error |-> "RuntimeError", falsy |-> FALSE,
      form |-> "tuple_conversion_gp", responses |-> BarrierResponses(n)]}

Aligners(n) == CalledAligners(n) \cup UncalledAligners(n)

\* The aligner argument left out, or None.
NoneArgument(n) ==
    [kind |-> "None", pickle_error |-> NoError, falsy |-> TRUE,
     form |-> "AlignmentResult", responses |-> [i \in 1..n |-> <<>>]]

\* LocalAlignment(): it pickles, and its align() returns nothing, for it
\* raises (AlignerRaises).
LocalAlignment(n) ==
    [kind |-> "LocalAlignment", pickle_error |-> NoError, falsy |-> FALSE,
     form |-> "AlignmentResult", responses |-> [i \in 1..n |-> <<>>]]

\* What aligner.align() raises whatever its arguments: LocalAlignment
\* reads sentence.phonemes, which no GraphemePhoneme has.
AlignerRaises ==
    IF aligner.kind = "LocalAlignment" THEN "AttributeError" ELSE NoError

\* What aligner.align(sentence_gp, entry i) returns.
AlignerReturns(i) == RawResults(aligner.responses[i], aligner.form)

NoTasks == <<>>

NoResult == [error |-> NoError, plans |-> <<>>]

\* No alignment has been made.
NoAlignment ==
    [args |-> "", raised |-> NoError, is_list |-> FALSE, value |-> <<>>]

\* subsequence_covering_span has not been called.
NoSpan == <<-1, -1>>

\* Nothing has been converted, derived or aligned outside correct().
NoConversions ==
    /\ converter = DefaultConverter
    /\ segments = <<>>
    /\ ipa = <<>>
    /\ span = NoSpan
    /\ constructor_args = NoneValue
    /\ derived = NoneValue
    /\ alignment = NoAlignment

\* The aligner is pickled by _should_parallelize only, and only for a
\* concurrency degree > 1 and more than one entry: Init gives no other
\* corrector an aligner whose pickling raises RuntimeError (one whose
\* pickling raises TypeError being the same to it).  The entries are
\* pickled by the pool only, which is used only if moreover the aligner
\* pickles, and no call is then made: Init gives entries that do not pickle
\* together with one such aligner, standing for all.
Init ==
    /\ phoneticizer = "echo"
    /\ oracle = <<>>
    /\ barrier_broken = FALSE
    /\ NoConversions
    /\ \E n \in 0..MaxEntries :
          /\ lexicon = [i \in 1..n |-> Entry(i)]
          /\ aligner \in Aligners(n) \cup {NoneArgument(n)}
    /\ score_threshold \in Thresholds
    /\ use_concurrency \in -1..MaxConcurrency
    /\ aligner.pickle_error = "RuntimeError" =>
          (use_concurrency > 1 /\ Len(lexicon) > 1)
    /\ entry_pickle_error \in
          IF /\ use_concurrency > 1 /\ Len(lexicon) > 1
             /\ aligner = [kind |-> "plain", pickle_error |-> NoError,
                           falsy |-> FALSE, form |-> "AlignmentResult",
                           responses |-> [i \in DOMAIN lexicon |-> <<>>]]
          THEN {NoError} \cup PickleErrors ELSE {NoError}
    /\ pc = "new"
    /\ error = NoError
    /\ public_call = "correct"
    /\ sentence = <<>>
    /\ sentence_gp = NoneValue
    /\ tasks = NoTasks
    /\ collected = <<>>
    /\ next_entry = 1
    /\ arrived = 0
    /\ align_calls = 0
    /\ candidates = <<>>
    /\ filtered_matches = <<>>
    /\ output = <<>>

\* ASRCorrector.__init__: self.aligner = aligner or LocalAlignment(), then
\* the check of use_concurrency.
Construct ==
    /\ pc = "new"
    /\ aligner' = IF aligner.falsy THEN LocalAlignment(Len(aligner.responses))
                  ELSE aligner
    /\ IF use_concurrency < 0
       THEN pc' = "config_error" /\ error' = "ValueError"
       ELSE pc' = "idle" /\ error' = NoError
    /\ UNCHANGED <<lexicon, score_threshold, use_concurrency,
                   entry_pickle_error, call, installed, conversions>>

\* What a lexicon file holds: no entry, or some.
LexiconFiles == {"empty", "entries"}

\* IPALexicon.load_from on the lexicon of the corrector, between two calls
\* of correct(): the entries are replaced by those of the file; for a file
\* with entries GraphemePhoneme.from_mapping, which the class does not
\* have, raises AttributeError before the assignment.
LoadFrom(file) ==
    /\ pc = "idle"
    /\ IF file = "empty"
       THEN lexicon' = <<>> /\ error' = NoError
       ELSE lexicon' = lexicon /\ error' = "AttributeError"
    /\ UNCHANGED <<score_threshold, aligner, use_concurrency,
                   entry_pickle_error, pc, call, installed, conversions>>

\* What add_phrases is given: nothing to add (no phrase, or None), strings,
\* or GraphemePhoneme instances.
PhraseKinds == {"none", "str", "GraphemePhoneme"}

\* IPALexicon.add_phrases between two calls of correct(): a string goes to
\* GraphemePhoneme(str, converter=...), a TypeError, and an instance to its
\* attribute graphemes, an AttributeError; no entry is added.
AddPhrases(kind) ==
    /\ pc = "idle"
    /\ error' = IF kind = "str" THEN "TypeError"
                ELSE IF kind = "GraphemePhoneme" THEN "AttributeError"
                ELSE NoError
    /\ UNCHANGED <<config, pc, call, installed, conversions>>

\* ASRCorrector._should_parallelize: its value, or the exception of
\* pickle.dumps((sentence_gp, self.aligner)) it does not catch.
should_parallelize(entries) ==
    IF use_concurrency <= 1 \/ Len(entries) <= 1
    THEN [error |-> NoError, value |-> FALSE]
    ELSE IF aligner.pickle_error = NoError
    THEN [error |-> NoError, value |-> TRUE]
    ELSE IF aligner.pickle_error \in PickleErrors
    THEN [error |-> NoError, value |-> FALSE]
    ELSE [error |-> aligner.pickle_error, value |-> FALSE]

PublicCalls == {"correct", "candidate_replacements"}

\* The return of the public method m once every entry's replacements are
\* collected: _candidate_replacements sorts them; candidate_replacements
\* returns the sorted list, correct() selects and splices.
Finish(m, gp, all_collected) ==
    /\ pc' = "done"
    /\ candidates' = sort_candidates(all_collected)
    /\ IF m = "correct"
       THEN /\ filtered_matches' = select_matches(candidates')
            /\ output' = correct_from_candidates(gp, candidates')
       ELSE /\ filtered_matches' = <<>>
            /\ output' = <<>>

\* A call of the public method m with the sentence s, up to the dispatch
\* of the alignments.
Call(m, s) ==
    /\ pc = "idle"
    /\ public_call' = m
    /\ sentence' = s
    /\ collected' = <<>>
    /\ next_entry' = 1
    /\ arrived' = 0
    /\ align_calls' = 0
    /\ IF s = <<>>
       THEN /\ pc' = "done"
            /\ error' = NoError
            /\ output' = s
            /\ sentence_gp' = NoneValue
            /\ tasks' = NoTasks
            /\ UNCHANGED <<candidates, filtered_matches>>
       ELSE /\ sentence_gp' = convert_to_grapheme_phoneme(DefaultConverter, s)
            /\ IF lexicon = <<>>
               THEN /\ Finish(m, sentence_gp'[1], <<>>)
                    /\ error' = NoError
                    /\ tasks' = NoTasks
               ELSE /\ UNCHANGED <<candidates, filtered_matches, output>>
                    /\ tasks' = IF should_parallelize(lexicon).value
                                THEN [i \in DOMAIN lexicon |->
                                        [state |-> "pending",
                                         result |-> NoResult]]
                                ELSE NoTasks
                    /\ error' = should_parallelize(lexicon).error
                    /\ pc' = IF should_parallelize(lexicon).error # NoError
                             THEN "failed"
                             ELSE IF should_parallelize(lexicon).value
                             THEN "parallel"
                             ELSE "sequential"
    /\ UNCHANGED <<config, installed, conversions>>

\* ASRCorrector.correct(s)
Correct(s) == Call("correct", s)

\* ASRCorrector.candidate_replacements(s)
CandidateReplacements(s) == Call("candidate_replacements", s)

\* _align_entry for entry i: the exception of aligner.align(), or what
\* becomes of what it returns.
AlignEntry(i) ==
    IF AlignerRaises # NoError
    THEN [error |-> AlignerRaises, plans |-> <<>>]
    ELSE align_entry(AlignerReturns(i), lexicon[i], score_threshold)

\* The barrier of the barrier aligner has one party per entry the lexicon
\* had when the aligner was made.
Parties == Len(aligner.responses)

\* One iteration of the sequential loop of _iter_replacements: the call of
\* _align_entry for the next entry, and the return of correct() after the
\* last one.  A barrier aligner called alone waits until its timeout, which
\* breaks the barrier, and raises AssertionError; on a broken barrier it
\* raises at once.
SeqAlign ==
    /\ pc = "sequential"
    /\ align_calls' = align_calls + 1
    /\ IF aligner.kind = "barrier" /\ (barrier_broken \/ Parties > 1)
       THEN /\ pc' = "failed"
            /\ error' = "AssertionError"
            /\ barrier_broken' = TRUE
            /\ UNCHANGED <<collected, next_entry, candidates,
                           filtered_matches, output>>
       ELSE LET r == AlignEntry(next_entry)
            IN  /\ UNCHANGED barrier_broken
                /\ IF r.error # NoError
                   THEN /\ pc' = "failed"
                        /\ error' = r.error
                        /\ UNCHANGED <<collected, next_entry, candidates,
                                       filtered_matches, output>>
                   ELSE /\ collected' = collected \o r.plans
                        /\ next_entry' = next_entry + 1
                        /\ error' = NoError
                        /\ IF next_entry = Len(lexicon)
                           THEN Finish(public_call, sentence_gp[1], collected')
                           ELSE /\ pc' = "sequential"
                                /\ UNCHANGED <<candidates, filtered_matches,
                                               output>>
    /\ UNCHANGED <<config, public_call, sentence, sentence_gp, tasks, arrived,
                   phoneticizer, oracle, conversions>>

\* The calls a worker process holds: taken from the call queue and not yet
\* in aligner.align(), or in it.
Running == {i \in DOMAIN tasks : tasks[i].state \in {"taken", "running"}}

\* The pool is at work: the caller is taking results, or is leaving the
\* with block (shutdown(wait=True)) after a result raised.
PoolAtWork == pc \in {"parallel", "shutdown"}

\* The workers take the submitted calls from the call queue in order, each
\* while it is free.
CanTake(i) ==
    /\ tasks[i].state = "pending"
    /\ \A j \in 1..(i - 1) : tasks[j].state # "pending"
    /\ Cardinality(Running) < use_concurrency

\* A worker process takes call i from the call queue.
TaskTake(i) ==
    /\ PoolAtWork
    /\ entry_pickle_error = NoError
    /\ CanTake(i)
    /\ tasks' = [tasks EXCEPT ![i].state = "taken"]
    /\ UNCHANGED <<installed, conversions>>
    /\ UNCHANGED <<config, pc, error, public_call, sentence, sentence_gp,
                   collected, next_entry, arrived, align_calls, candidates,
                   filtered_matches, output>>

\* The worker that took call i enters aligner.align(): the workers being
\* processes of their own, in any order among the calls taken.
TaskStart(i) ==
    /\ PoolAtWork
    /\ tasks[i].state = "taken"
    /\ tasks' = [tasks EXCEPT ![i].state = "running"]
    /\ align_calls' = align_calls + 1
    /\ arrived' = IF aligner.kind = "barrier" THEN arrived + 1 ELSE arrived
    /\ UNCHANGED <<installed, conversions>>
    /\ UNCHANGED <<config, pc, error, public_call, sentence, sentence_gp,
                   collected, next_entry, candidates, filtered_matches,
                   output>>

\* Call i cannot be pickled for the call queue: its future gets the
\* exception pickle raised.
TaskSendFails(i) ==
    /\ PoolAtWork
    /\ entry_pickle_error # NoError
    /\ tasks[i].state = "pending"
    /\ \A j \in 1..(i - 1) : tasks[j].state # "pending"
    /\ tasks' = [tasks EXCEPT ![i] =
                    [state |-> "raised",
                     result |-> [error |-> entry_pickle_error,
                                 plans |-> <<>>]]]
    /\ UNCHANGED <<installed, conversions>>
    /\ UNCHANGED <<config, pc, error, public_call, sentence, sentence_gp, collected,
                   next_entry, arrived, align_calls, candidates,
                   filtered_matches, output>>

\* Call i returns from _align_entry in its worker; with the barrier
\* aligner, only once every party has arrived at a barrier that is whole.
TaskFinish(i) ==
    /\ PoolAtWork
    /\ tasks[i].state = "running"
    /\ aligner.kind = "barrier" => (~barrier_broken /\ arrived >= Parties)
    /\ LET r == AlignEntry(i)
       IN  tasks' = [tasks EXCEPT ![i] =
                        [state |-> IF r.error = NoError THEN "done"
                                   ELSE "raised",
                         result |-> r]]
    /\ UNCHANGED <<installed, conversions>>
    /\ UNCHANGED <<config, pc, error, public_call, sentence, sentence_gp, collected,
                   next_entry, arrived, align_calls, candidates,
                   filtered_matches, output>>

\* Call i waits on the barrier and its wait raises BrokenBarrierError,
\* which align() turns into AssertionError: the barrier is broken already,
\* or not every party has arrived when barrier.wait(timeout=5) gives up,
\* which breaks the barrier for every waiter and for every later wait.
\* The wait gives up on elapsed time alone, whether or not a call that is
\* still queued or taken could yet arrive.
BarrierTimeout(i) ==
    /\ PoolAtWork
    /\ aligner.kind = "barrier"
    /\ tasks[i].state = "running"
    /\ \/ barrier_broken
       \/ arrived < Parties
    /\ barrier_broken' = TRUE
    /\ tasks' = [tasks EXCEPT ![i] =
                    [state |-> "raised",
                     result |-> [error |-> "AssertionError", plans |-> <<>>]]]
    /\ UNCHANGED <<phoneticizer, oracle, conversions>>
    /\ UNCHANGED <<config, pc, error, public_call, sentence, sentence_gp, collected,
                   next_entry, arrived, align_calls, candidates,
                   filtered_matches, output>>

\* The calls not yet taken by a worker.
Pending == {j \in DOMAIN tasks : tasks[j].state = "pending"}

\* The room of the pool's call queue (max_workers + EXTRA_QUEUED_CALLS).
CallQueueSize == use_concurrency + 1

\* The caller took the raised result of call i: the generator of
\* executor.map cancels the futures it still can, the exception leaves the
\* with block and shutdown(wait=True) begins.  The calls already handed to
\* the call queue, the first queued of those not yet started, are not to
\* be cancelled any more and will still run.
TakeRaised(i) ==
    /\ pc' = "shutdown"
    /\ error' = tasks[i].result.error
    /\ \E queued \in 0..Min(Cardinality(Pending), CallQueueSize) :
          tasks' = [j \in DOMAIN tasks |->
                       IF /\ tasks[j].state = "pending"
                          /\ Cardinality({k \in Pending : k < j}) >= queued
                       THEN [tasks[j] EXCEPT !.state = "cancelled"]
                       ELSE tasks[j]]
    /\ UNCHANGED <<collected, next_entry, candidates, filtered_matches,
                   output>>

\* The caller taking results as the calls complete (as_completed) instead
\* of in submission order; next_entry counts the results taken.
YieldAsCompleted ==
    /\ pc = "parallel"
    /\ \E i \in DOMAIN tasks :
          /\ tasks[i].state \in {"done", "raised"}
          /\ IF tasks[i].state = "raised"
             THEN TakeRaised(i)
             ELSE /\ collected' = collected \o tasks[i].result.plans
                  /\ next_entry' = next_entry + 1
                  /\ error' = NoError
                  /\ tasks' = [tasks EXCEPT ![i].state = "yielded"]
                  /\ IF next_entry = Len(lexicon)
                     THEN Finish(public_call, sentence_gp[1], collected')
                     ELSE /\ pc' = "parallel"
                          /\ UNCHANGED <<candidates, filtered_matches, output>>
    /\ UNCHANGED <<config, public_call, sentence, sentence_gp, arrived, align_calls,
                   installed, conversions>>

\* The caller stopping at the first result that holds a plan of the highest
\* score: the calls still pending are cancelled and correct() returns.
YieldUntilHighScore ==
    /\ pc = "parallel"
    /\ next_entry \in DOMAIN tasks
    /\ tasks[next_entry].state \in {"done", "raised"}
    /\ IF tasks[next_entry].state = "raised"
       THEN TakeRaised(next_entry)
       ELSE /\ collected' = collected \o tasks[next_entry].result.plans
            /\ next_entry' = next_entry + 1
            /\ error' = NoError
            /\ IF \/ next_entry = Len(lexicon)
                  \/ \E c \in Range(collected') : c.score = 2
               THEN /\ Finish(public_call, sentence_gp[1], collected')
                    /\ tasks' = [i \in DOMAIN tasks |->
                                    IF i = next_entry
                                    THEN [tasks[i] EXCEPT !.state = "yielded"]
                                    ELSE IF tasks[i].state = "pending"
                                    THEN [tasks[i] EXCEPT !.state = "cancelled"]
                                    ELSE tasks[i]]
               ELSE /\ pc' = "parallel"
                    /\ tasks' = [tasks EXCEPT ![next_entry].state = "yielded"]
                    /\ UNCHANGED <<candidates, filtered_matches, output>>
    /\ UNCHANGED <<config, public_call, sentence, sentence_gp, arrived, align_calls,
                   installed, conversions>>

\* The caller takes the next result of executor.map, in submission order:
\* it yields the replacements, or the call's exception is raised in the
\* caller; after the last result correct() returns.
Yield ==
    /\ pc = "parallel"
    /\ next_entry \in DOMAIN tasks
    /\ tasks[next_entry].state \in {"done", "raised"}
    /\ IF tasks[next_entry].state = "raised"
       THEN TakeRaised(next_entry)
       ELSE /\ collected' = collected \o tasks[next_entry].result.plans
            /\ next_entry' = next_entry + 1
            /\ error' = NoError
            /\ tasks' = [tasks EXCEPT ![next_entry].state = "yielded"]
            /\ IF next_entry = Len(lexicon)
               THEN Finish(public_call, sentence_gp[1], collected')
               ELSE /\ pc' = "parallel"
                    /\ UNCHANGED <<candidates, filtered_matches, output>>
    /\ UNCHANGED <<config, public_call, sentence, sentence_gp, arrived, align_calls,
                   installed, conversions>>

\* shutdown(wait=True) is over, no call being queued or running any more:
\* the exception taken from the pool leaves correct().
Raise ==
    /\ pc = "shutdown"
    /\ \A i \in DOMAIN tasks : tasks[i].state \notin {"pending", "taken", "running"}
    /\ pc' = "failed"
    /\ UNCHANGED <<config, error, call, installed, conversions>>

\* The return of a correct() that keeps the score it substituted at as the
\* threshold of the calls to come.
Return_adapting_threshold ==
    /\ pc \in {"done", "failed"}
    /\ pc' = "idle"
    /\ score_threshold' = IF filtered_matches # <<>>
                          THEN Threshold(filtered_matches[1].score)
                          ELSE score_threshold
    /\ public_call' = "correct"
    /\ sentence' = <<>>
    /\ sentence_gp' = NoneValue
    /\ tasks' = NoTasks
    /\ collected' = <<>>
    /\ next_entry' = 1
    /\ arrived' = 0
    /\ align_calls' = 0
    /\ candidates' = <<>>
    /\ filtered_matches' = <<>>
    /\ output' = <<>>
    /\ error' = NoError
    /\ UNCHANGED <<lexicon, aligner, use_concurrency, entry_pickle_error,
                   installed, conversions>>

\* correct() has returned, or its exception has reached the caller; the
\* corrector is ready for another call.
Return ==
    /\ pc \in {"done", "failed"}
    /\ pc' = "idle"
    /\ error' = NoError
    /\ public_call' = "correct"
    /\ sentence' = <<>>
    /\ sentence_gp' = NoneValue
    /\ tasks' = NoTasks
    /\ collected' = <<>>
    /\ next_entry' = 1
    /\ arrived' = 0
    /\ align_calls' = 0
    /\ candidates' = <<>>
    /\ filtered_matches' = <<>>
    /\ output' = <<>>
    /\ UNCHANGED <<config, installed, conversions>>

Next ==
    \/ Construct
    \/ \E file \in LexiconFiles : LoadFrom(file)
    \/ \E kind \in PhraseKinds : AddPhrases(kind)
    \/ \E s \in Sentences : Correct(s)
    \/ \E s \in Sentences : CandidateReplacements(s)
    \/ SeqAlign
    \/ \E i \in DOMAIN tasks : TaskTake(i)
    \/ \E i \in DOMAIN tasks : TaskStart(i)
    \/ \E i \in DOMAIN tasks : TaskSendFails(i)
    \/ \E i \in DOMAIN tasks : TaskFinish(i)
    \/ \E i \in DOMAIN tasks : BarrierTimeout(i)
    \/ Yield
    \/ Raise
    \/ Return

Spec == Init /\ [][Next]_vars

(***************************************************************************)
(* Overlap resolution and splicing on their own: _filter_overlaps and      *)
(* _apply_replacements are static methods, applied here to every list of   *)
(* at most MaxMatches matches over the text "abcde", match k replacing by  *)
(* lexicon entry k.  collected holds the argument of _filter_overlaps.     *)
(***************************************************************************)
OverlapText == <<"a", "b", "c", "d", "e">>

OverlapStarts == -1..4

OverlapEnds == 1..5

\* The lists of k <<start, end>> pairs.
MatchLists(k) == [1..k -> OverlapStarts \X OverlapEnds]

\* The candidates of the worked example of overlap resolution.
ExampleRanges == <<<<0, 5>>, <<2, 8>>, <<6, 9>>>>

InitOverlap ==
    /\ phoneticizer = "echo"
    /\ oracle = <<>>
    /\ barrier_broken = FALSE
    /\ NoConversions
    /\ lexicon = [i \in 1..MaxMatches |-> Entry(i)]
    /\ score_threshold = Threshold(1)
    /\ aligner = [kind |-> "plain", pickle_error |-> NoError,
                  falsy |-> FALSE, form |-> "AlignmentResult",
                  responses |-> [i \in 1..MaxMatches |-> <<>>]]
    /\ use_concurrency = 1
    /\ entry_pickle_error = NoError
    /\ pc = "matches"
    /\ error = NoError
    /\ public_call = "correct"
    /\ sentence = OverlapText
    /\ sentence_gp = convert_to_grapheme_phoneme(DefaultConverter, OverlapText)
    /\ tasks = NoTasks
    /\ \E n \in 0..MaxMatches :
       \E ranges \in MatchLists(n)
                      \cup (IF n = 3 THEN {ExampleRanges} ELSE {}) :
          collected = [k \in DOMAIN ranges |->
                          [score |-> 2, start |-> ranges[k][1],
                           end |-> ranges[k][2], replacement |-> lexicon[k]]]
    /\ next_entry = 1
    /\ arrived = 0
    /\ align_calls = 0
    /\ candidates = <<>>
    /\ filtered_matches = <<>>
    /\ output = <<>>

\* filtered = _filter_overlaps(matches)
FilterOverlaps ==
    /\ pc = "matches"
    /\ pc' = "filtered"
    /\ filtered_matches' = filter_overlaps(collected)
    /\ UNCHANGED <<installed, conversions>>
    /\ UNCHANGED <<config, error, public_call, sentence, sentence_gp, tasks, collected,
                   next_entry, arrived, align_calls, candidates, output>>

\* _apply_replacements(text, filtered)
ApplyReplacements ==
    /\ pc = "filtered"
    /\ pc' = "applied"
    /\ output' = apply_replacements(sentence_gp[1].grapheme_str,
                                    filtered_matches)
    /\ UNCHANGED <<installed, conversions>>
    /\ UNCHANGED <<config, error, public_call, sentence, sentence_gp, tasks, collected,
                   next_entry, arrived, align_calls, candidates,
                   filtered_matches>>

NextOverlap == FilterOverlaps \/ ApplyReplacements

SpecOverlap == InitOverlap /\ [][NextOverlap]_vars

(***************************************************************************)
(* LocalAlignment (alignment.py:45-120).  An aligner is [method, aline],   *)
(* aline telling whether an ALINE object was passed to the constructor.    *)
(* oracle is what the alignment library answers: a list of alignments      *)
(* [sentence_tokens, query_tokens, score], of which lingpy's we_align      *)
(* returns all and ALINE.alignment the first, as strings.  The outcome of  *)
(* align() is [args, raised, is_list, value]: args is the kind of objects  *)
(* it was called with, raised the exception it raised if any, value the    *)
(* sequence of the AlignmentResults it returned, is_list whether it        *)
(* returned them as a list.                                                *)
(***************************************************************************)
MaxTokens == 3

\* The aligned tokens: the gap, the region marker (U+2016), a space, and a
\* token of two phoneme characters.
AlignTokens == {<<"-">>, <<"U2016">>, <<" ">>, <<"x", "a">>}

AlignScores == {0, 1}

\* The token streams of one alignment have the same length.
TokenStreams == UNION {[1..n -> AlignTokens] : n \in 0..MaxTokens}

Oracles ==
    {<<>>} \cup
    {<<[sentence_tokens |-> a[1], query_tokens |-> a[2], score |-> sc]>> :
        a \in {b \in TokenStreams \X TokenStreams : Len(b[1]) = Len(b[2])},
        sc \in AlignScores}

AlignerMethods == {"lingpy", "aline", "needleman"}

\* The objects align() is called with: GraphemePhoneme values of this
\* package, which have no attribute phonemes, or objects that have one.
AlignArgs == {"GraphemePhoneme", "phonemes_object"}

RECURSIVE SplitOn(_, _)
\* str.split(c): the parts of s between the occurrences of character c.
SplitOn(s, c) ==
    IF \A k \in DOMAIN s : s[k] # c THEN <<s>>
    ELSE LET k == CHOOSE i \in DOMAIN s :
                      s[i] = c /\ \A j \in 1..(i - 1) : s[j] # c
         IN  <<SubSeq(s, 1, k - 1)>> \o SplitOn(SubSeq(s, k + 1, Len(s)), c)

\* LocalAlignment._extract_subsequence
extract_subsequence(align_str) ==
    LET parts == SplitOn(align_str, "U2016")
        segment == IF Len(parts) >= 3 THEN parts[2] ELSE align_str
    IN  DeleteChars(segment, WhitespaceChars)

\* LocalAlignment._build_alignment_result
build_alignment_result(score, sentence_tokens, query_tokens) ==
    [score |-> score,
     sentence_subsequence |-> DeleteChars(Join(sentence_tokens), {"-"}),
     sentence_alignment |-> Join(sentence_tokens),
     query_alignment |-> Join(query_tokens)]

\* An align() that returned the single AlignmentResult r.
Returned(args, r) ==
    [args |-> args, raised |-> NoError, is_list |-> FALSE, value |-> <<r>>]

\* An align() that raised.
Raised(args, exception) ==
    [args |-> args, raised |-> exception, is_list |-> FALSE, value |-> <<>>]

\* LocalAlignment._align_with_lingpy
align_with_lingpy(args) ==
    IF args = "GraphemePhoneme" THEN Raised(args, "AttributeError")
    ELSE IF oracle = <<>>
    THEN Returned(args, [score |-> 0, sentence_subsequence |-> <<>>,
                         sentence_alignment |-> <<>>,
                         query_alignment |-> <<>>])
    ELSE Returned(args, build_alignment_result(oracle[1].score,
                            oracle[1].sentence_tokens,
                            oracle[1].query_tokens))

\* LocalAlignment._align_with_aline
align_with_aline(args) ==
    IF ~aligner.aline THEN Raised(args, "RuntimeError")
    ELSE IF args = "GraphemePhoneme" THEN Raised(args, "AttributeError")
    ELSE Returned(args,
            [score |-> oracle[1].score,
             sentence_subsequence |->
                 extract_subsequence(Join(oracle[1].sentence_tokens)),
             sentence_alignment |-> Join(oracle[1].sentence_tokens),
             query_alignment |-> Join(oracle[1].query_tokens)])

\* LocalAlignment.align
align(args) ==
    IF aligner.method = "lingpy" THEN align_with_lingpy(args)
    ELSE align_with_aline(args)

\* The corrector's variables while no corrector is in use.
NoCorrector ==
    /\ public_call = "correct"
    /\ lexicon = <<>>
    /\ score_threshold = Threshold(0)
    /\ use_concurrency = 0
    /\ entry_pickle_error = NoError
    /\ tasks = NoTasks
    /\ collected = <<>>
    /\ next_entry = 1
    /\ arrived = 0
    /\ align_calls = 0
    /\ candidates = <<>>
    /\ filtered_matches = <<>>
    /\ output = <<>>

\* The arguments of LocalAlignment(method, aline) and the library's answer;
\* ALINE always answers with one alignment.
InitAlign ==
    /\ phoneticizer = "echo"
    /\ oracle \in Oracles
    /\ barrier_broken = FALSE
    /\ NoConversions
    /\ NoCorrector
    /\ aligner \in [method : AlignerMethods, aline : BOOLEAN]
    /\ aligner.method = "aline" => oracle # <<>>
    /\ pc = "new"
    /\ error = NoError
    /\ sentence = <<>>
    /\ sentence_gp = NoneValue

\* LocalAlignment.__init__
ConstructAligner ==
    /\ pc = "new"
    /\ IF aligner.method \notin {"lingpy", "aline"}
       THEN /\ pc' = "config_error"
            /\ error' = "ValueError"
            /\ UNCHANGED aligner
       ELSE /\ pc' = "ready"
            /\ error' = NoError
            /\ aligner' = [aligner EXCEPT
                              !.aline = aligner.aline \/ aligner.method = "aline"]
    /\ UNCHANGED <<lexicon, score_threshold, use_concurrency,
                   entry_pickle_error, call, installed, conversions>>

\* A call of LocalAlignment.align(sentence, query).
Align(args) ==
    /\ pc = "ready"
    /\ alignment' = align(args)
    /\ pc' = IF alignment'.raised = NoError THEN "aligned" ELSE "failed"
    /\ error' = alignment'.raised
    /\ UNCHANGED <<config, call, installed, converter, segments, ipa, span,
                   constructor_args, derived>>

NextAlign ==
    \/ ConstructAligner
    \/ \E args \in AlignArgs : Align(args)

SpecAlign == InitAlign /\ [][NextAlign]_vars

(***************************************************************************)
(* The converter and the GraphemePhoneme operations on their own.  A text  *)
(* is made of at most MaxWords words; sentence holds the text,             *)
(* sentence_gp the GraphemePhoneme convert_to_grapheme_phoneme builds from *)
(* it, derived the value a GraphemePhoneme operation then gives (none when *)
(* it raises ValueError or returns None).                                  *)
(***************************************************************************)
MaxWords == 3

\* Two ideographs, Latin words in lower and upper case, a digit, a space,
\* a punctuation mark, and a Cyrillic letter.
Words == {<<"U4F60">>, <<"U597D">>, <<"a">>, <<"b", "a">>, <<"A">>,
          <<"1">>, <<" ">>, <<"!">>, <<"U044F">>}

Texts == {Join(ws) : ws \in UNION {[1..n -> Words] : n \in 0..MaxWords}}

Converters ==
    [remove_tone_marks : BOOLEAN, remove_stress_marks : BOOLEAN,
     strip_whitespace : BOOLEAN, remove_punctuation : BOOLEAN]

\* The aligner variable while no aligner is in use.
NoAligner ==
    [kind |-> "plain", pickle_error |-> NoError, falsy |-> FALSE,
     form |-> "AlignmentResult", responses |-> <<>>]

InitText ==
    /\ oracle = <<>>
    /\ barrier_broken = FALSE
    /\ NoCorrector
    /\ aligner = NoAligner
    /\ segments = <<>>
    /\ ipa = <<>>
    /\ span = NoSpan
    /\ constructor_args = NoneValue
    /\ derived = NoneValue
    /\ alignment = NoAlignment
    /\ pc = "text"
    /\ error = NoError
    /\ sentence \in Texts
    /\ sentence_gp = NoneValue

\* An IPAConverter with any options, any phoneticizers installed.
InitConvert ==
    /\ phoneticizer \in Phoneticizers
    /\ converter \in Converters
    /\ InitText

\* converter.tokenize(text)
Tokenize ==
    /\ pc = "text"
    /\ pc' = "tokenized"
    /\ segments' = tokenize(sentence)
    /\ UNCHANGED <<config, error, call, installed, converter, ipa, span,
                   constructor_args, derived, alignment>>

\* converter.convert(text)
ConvertText ==
    /\ pc = "tokenized"
    /\ pc' = "converted"
    /\ ipa' = convert(converter, sentence)
    /\ UNCHANGED <<config, error, call, installed, converter, segments, span,
                   constructor_args, derived, alignment>>

\* converter.convert_to_grapheme_phoneme(text)
ConvertGP ==
    /\ pc = "converted"
    /\ pc' = "gp"
    /\ sentence_gp' = convert_to_grapheme_phoneme(converter, sentence)
    /\ UNCHANGED <<config, error, public_call, sentence, tasks, collected, next_entry,
                   arrived, align_calls, candidates, filtered_matches, output,
                   installed, conversions>>

\* The GraphemePhoneme the next operation is applied to: the converter's,
\* or the one subsequence_covering_span returned.
HasSubject == pc = "gp" \/ (pc = "sub" /\ derived # NoneValue)

Subject == IF pc = "sub" THEN derived[1] ELSE sentence_gp[1]

\* The operation gave value (an optional GraphemePhoneme); none from a
\* constructor is its ValueError.
Derive(value, next_pc, raises) ==
    /\ pc' = next_pc
    /\ derived' = value
    /\ error' = IF raises /\ value = NoneValue THEN "ValueError" ELSE NoError
    /\ UNCHANGED <<config, call, installed, converter, segments, ipa,
                   alignment>>

\* GraphemePhoneme.from_components(g.grapheme_str, g.grapheme_list,
\* g.phoneme_str, g.phoneme_list)
FromComponents ==
    /\ HasSubject
    /\ Derive(from_components(Subject.grapheme_str, Subject.grapheme_list,
                              Subject.phoneme_str, Subject.phoneme_list),
              "rebuilt", TRUE)
    /\ UNCHANGED <<span, constructor_args>>

\* GraphemePhoneme.from_dict(g.to_dict())
FromDict ==
    /\ HasSubject
    /\ Derive(from_dict(to_dict(Subject)), "reloaded", TRUE)
    /\ UNCHANGED <<span, constructor_args>>

NextConvert ==
    \/ Tokenize
    \/ ConvertText
    \/ ConvertGP
    \/ FromComponents
    \/ FromDict

SpecConvert == InitConvert /\ [][NextConvert]_vars

(***************************************************************************)
(* The GraphemePhoneme operations applied to what the default converter    *)
(* builds: subsequence_covering_span over the phoneme offsets up to        *)
(* MaxOffset, the constructor called directly on fields that may break     *)
(* its checks, and from_components/from_dict, also on a subsequence.       *)
(***************************************************************************)
MaxOffset == 6

Offsets == 0..MaxOffset

\* Arguments of a direct constructor call, derived from an instance's
\* fields: the fields themselves, one of the four lists a unit short, a
\* phoneme_str that is not the concatenation, spans moved by one.
Constructions ==
    {"same", "short_grapheme_list", "short_phoneme_list",
     "short_grapheme_spans", "short_phoneme_spans", "other_phoneme_str",
     "shifted_spans"}

Front(seq) == SubSeq(seq, 1, Len(seq) - 1)

ConstructorArgs(gp, kind) ==
    CASE kind = "short_grapheme_list" ->
            [gp EXCEPT !.grapheme_list = Front(@)]
      [] kind = "short_phoneme_list" ->
            [gp EXCEPT !.phoneme_list = Front(@)]
      [] kind = "short_grapheme_spans" ->
            [gp EXCEPT !.grapheme_spans = Front(@)]
      [] kind = "short_phoneme_spans" ->
            [gp EXCEPT !.phoneme_spans = Front(@)]
      [] kind = "other_phoneme_str" ->
            [gp EXCEPT !.phoneme_str = @ \o <<"x">>]
      [] kind = "shifted_spans" ->
            [gp EXCEPT !.grapheme_spans =
                           [k \in DOMAIN @ |-> <<@[k][1] + 1, @[k][2] + 1>>],
                       !.phoneme_spans =
                           [k \in DOMAIN @ |-> <<@[k][1] + 1, @[k][2] + 1>>]]
      [] OTHER -> gp

InitSpans ==
    /\ phoneticizer \in {"echo", "sparse"}
    /\ converter = DefaultConverter
    /\ InitText

\* g.subsequence_covering_span(start, end) on the converter's g
Subsequence(start, end) ==
    /\ pc = "gp"
    /\ span' = <<start, end>>
    /\ Derive(subsequence_covering_span(sentence_gp[1], start, end), "sub",
              FALSE)
    /\ UNCHANGED constructor_args

\* GraphemePhoneme(grapheme_str=..., ..., phoneme_spans=...)
ConstructDirectly(kind) ==
    /\ pc = "gp"
    /\ LET args == ConstructorArgs(sentence_gp[1], kind)
       IN  /\ constructor_args' = Some(args)
           /\ Derive(GraphemePhoneme(args.grapheme_str, args.grapheme_list,
                                     args.phoneme_str, args.phoneme_list,
                                     args.grapheme_spans, args.phoneme_spans),
                     "constructed", TRUE)
    /\ UNCHANGED span

NextSpans ==
    \/ Tokenize
    \/ ConvertText
    \/ ConvertGP
    \/ FromComponents
    \/ FromDict
    \/ \E start \in Offsets, end \in Offsets : Subsequence(start, end)
    \/ \E kind \in Constructions : ConstructDirectly(kind)

SpecSpans == InitSpans /\ [][NextSpans]_vars

(***************************************************************************)
(* Properties of correct(): selection, thresholding, overlap resolution    *)
(* and splicing.                                                           *)
(***************************************************************************)
\* The positions of text holding character c.
Occurrences(text, c) == {p \in DOMAIN text : text[p] = c}

\* Two matches share a character position.
RangesOverlap(a, b) == a.start < b.end /\ b.start < a.end

\* The candidates at the greatest score among the candidates.
TopCandidates ==
    {c \in Range(candidates) : \A d \in Range(candidates) : d.score <= c.score}

\* C1: when correct() returns after selection, every match it substitutes
\* has the greatest score among all candidates of all entries; every
\* candidate tied at that score is accepted or starts inside an accepted
\* one; and the output holds exactly one lexicon spelling per accepted
\* match (U4E16 opens every lexicon phrase and is not in the sentence), so
\* no candidate of a lower score is substituted.
C1_OnlyBestScoreSubstituted ==
    (pc = "done" /\ public_call = "correct" /\ candidates # <<>>) =>
        /\ \A f \in Range(filtered_matches) : f \in TopCandidates
        /\ \A c \in TopCandidates :
              \/ c \in Range(filtered_matches)
              \/ \E f \in Range(filtered_matches) :
                    f.start <= c.start /\ c.start < f.end
        /\ Cardinality(Occurrences(output, "U4E16")) = Len(filtered_matches)

\* correct() has returned with two candidates tied at the best score and a
\* candidate of a lower score whose range is disjoint from both.
C1_Witness ==
    /\ pc = "done"
    /\ Cardinality(TopCandidates) >= 2
    /\ \E c \in Range(candidates) :
          /\ c \notin TopCandidates
          /\ \A t \in TopCandidates : ~RangesOverlap(c, t)
    /\ filtered_matches # <<>>

\* The results the aligner returns for lexicon entry i.
ResultsOf(i) == Range(aligner.responses[i])

\* Candidate c is the plan made from result r of entry i.
PlanOf(c, i, r) ==
    /\ c.replacement = lexicon[i]
    /\ c.score = r.score
    /\ c.start = r.start
    /\ c.end = r.end

\* C2: no collected plan, candidate or accepted match has a score below
\* the threshold, and when correct() returns, a result of an entry has a
\* candidate exactly when its score is greater than or equal to the
\* threshold.
C2_ThresholdInclusive ==
    /\ \A c \in Range(collected) \cup Range(candidates)
                \cup Range(filtered_matches) :
          c.score >= score_threshold.value
    /\ (pc = "done" /\ sentence # <<>>) =>
          \A i \in DOMAIN lexicon : \A r \in ResultsOf(i) :
              (\E c \in Range(candidates) : PlanOf(c, i, r))
                  <=> (r.score >= score_threshold.value)

\* correct() has returned having accepted a result whose score equals the
\* threshold and rejected one strictly below it.
C2_Witness ==
    /\ pc = "done"
    /\ \E i \in DOMAIN lexicon : \E r \in ResultsOf(i) :
          /\ r.score = score_threshold.value
          /\ \E f \in Range(filtered_matches) : PlanOf(f, i, r)
    /\ \E i \in DOMAIN lexicon : \E r \in ResultsOf(i) :
          r.score < score_threshold.value

\* Every match handed to _filter_overlaps has 0 <= start < end.
ProperRanges(matches) ==
    \A m \in Range(matches) : 0 <= m.start /\ m.start < m.end

\* C3: for matches with 0 <= start < end, the matches _filter_overlaps
\* accepts are taken from its argument, in ascending order of start, and
\* pairwise non-overlapping: each ends at or before the next one starts.
C3_AcceptedNonOverlapping ==
    (pc \in {"filtered", "applied"} /\ ProperRanges(collected)) =>
        /\ Range(filtered_matches) \subseteq Range(collected)
        /\ \A j \in DOMAIN filtered_matches : \A k \in DOMAIN filtered_matches :
              j < k =>
                 /\ filtered_matches[j].start < filtered_matches[k].start
                 /\ filtered_matches[j].end <= filtered_matches[k].start
                 /\ ~RangesOverlap(filtered_matches[j], filtered_matches[k])

\* _filter_overlaps has accepted two of three proper matches and dropped
\* one that overlaps an accepted one.
C3_Witness ==
    /\ pc = "filtered"
    /\ ProperRanges(collected)
    /\ Len(collected) = 3
    /\ Len(filtered_matches) = 2
    /\ \E c \in Range(collected) :
          /\ c \notin Range(filtered_matches)
          /\ \E f \in Range(filtered_matches) : RangesOverlap(c, f)

\* The accepted matches lie within text and do not overlap.
AcceptedWithin(text, matches) ==
    /\ \A m \in Range(matches) :
          0 <= m.start /\ m.start < m.end /\ m.end <= Len(text)
    /\ \A j \in DOMAIN matches : \A k \in DOMAIN matches :
          j < k => matches[j].end <= matches[k].start

\* text with every accepted range replaced, position by position: at an
\* offset where a match starts comes its entry's spelling; a character of
\* text is kept exactly when no match covers its offset.
SplicedText(text, matches) ==
    Join([p \in 1..(Len(text) + 1) |->
            (IF \E m \in Range(matches) : m.start = p - 1
             THEN (CHOOSE m \in Range(matches) :
                       m.start = p - 1).replacement.grapheme_str
             ELSE <<>>)
            \o
            (IF /\ p <= Len(text)
                /\ ~\E m \in Range(matches) : m.start <= p - 1 /\ p - 1 < m.end
             THEN <<text[p]>>
             ELSE <<>>)])

\* C4: for accepted matches that lie within the sentence and do not
\* overlap, _apply_replacements returns the sentence with every accepted
\* range replaced by the spelling of its lexicon entry and every character
\* outside the ranges kept, in order: the prefix, the gaps and the tail.
C4_SpliceKeepsTheRest ==
    (pc = "applied"
        /\ AcceptedWithin(sentence_gp[1].grapheme_str, filtered_matches)) =>
        output = SplicedText(sentence_gp[1].grapheme_str, filtered_matches)

\* Two accepted ranges with a prefix before the first, a gap between them
\* and a tail after the second have been spliced.
C4_Witness ==
    /\ pc = "applied"
    /\ AcceptedWithin(sentence_gp[1].grapheme_str, filtered_matches)
    /\ Len(filtered_matches) = 2
    /\ filtered_matches[1].start > 0
    /\ filtered_matches[1].end < filtered_matches[2].start
    /\ filtered_matches[2].end < Len(sentence_gp[1].grapheme_str)

(***************************************************************************)
(* Properties of correct(): the ranges of the plans, the unchanged         *)
(* sentence, and the order of the parallel results.                        *)
(***************************************************************************)
\* The grapheme range subsequence_covering_span gives for result r in the
\* sentence of the current call.
Projection(r) == covering_range(sentence_gp[1], r.start, r.end)

\* C5: when correct() or candidate_replacements() returns, every
\* candidate's range is the projection by subsequence_covering_span of the
\* phoneme range of the result it was made from, and a result whose
\* projection is none has no candidate.
C5_RangesProjected ==
    (pc = "done" /\ sentence # <<>>) =>
        /\ \A c \in Range(candidates) :
              \E i \in DOMAIN lexicon : \E r \in ResultsOf(i) :
                 /\ c.replacement = lexicon[i]
                 /\ c.score = r.score
                 /\ Projection(r) = Some(<<c.start, c.end>>)
        /\ \A i \in DOMAIN lexicon : \A r \in ResultsOf(i) :
              Projection(r) = NoneValue =>
                 ~\E c \in Range(candidates) : c.replacement = lexicon[i]

\* C6: when correct() returns without a candidate (an empty sentence, an
\* empty lexicon, or every result below the threshold) its output is the
\* sentence, character for character; and with an empty lexicon the aligner
\* is never called.
C6_UnchangedWithoutCandidates ==
    /\ (pc = "done" /\ public_call = "correct" /\ candidates = <<>>) =>
           output = sentence
    /\ lexicon = <<>> => align_calls = 0

\* correct() has returned a non-empty sentence after calling the aligner
\* for every entry of a non-empty lexicon, every result being below the
\* threshold.
C6_Witness ==
    /\ pc = "done"
    /\ sentence # <<>>
    /\ lexicon # <<>>
    /\ align_calls = Len(lexicon)
    /\ \A i \in DOMAIN lexicon : ResultsOf(i) # {}
    /\ candidates = <<>>
    /\ output = sentence

RECURSIVE SequentialPlans(_)
\* The plans of lexicon entries 1..n, entry after entry.
SequentialPlans(n) ==
    IF n = 0 THEN <<>>
    ELSE SequentialPlans(n - 1)
         \o align_entry(AlignerReturns(n), lexicon[n],
                        score_threshold).plans

\* C7: whatever the order in which the calls of the pool enter align() and
\* complete, the plans collected so far are those of the first entries in
\* lexicon order,
\* and when correct() returns, the candidate list and the output are the
\* ones computed from the plans of all entries in lexicon order.
C7_CompletionOrderIrrelevant ==
    /\ collected = SequentialPlans(next_entry - 1)
    /\ (pc = "done" /\ sentence # <<>>) =>
          /\ candidates = sort_candidates(SequentialPlans(Len(lexicon)))
          /\ public_call = "correct" =>
                output =
                   correct_from_candidates(
                       sentence_gp[1],
                       sort_candidates(SequentialPlans(Len(lexicon))))

\* correct() has returned from a parallel run in which two entries gave
\* candidates of the same score and range, so that the order of the
\* results decides which one is substituted.
C7_Witness ==
    /\ pc = "done"
    /\ tasks # NoTasks
    /\ \E j \in DOMAIN candidates : \E k \in DOMAIN candidates :
          /\ j < k
          /\ CandidateKey(candidates[j]) = CandidateKey(candidates[k])
          /\ candidates[j].score >= candidates[1].score
          /\ candidates[j] \in Range(filtered_matches)

(***************************************************************************)
(* Statements of the specification that the code does not satisfy.         *)
(***************************************************************************)
\* C8: with N >= 2 entries and a concurrency degree of at least N, the
\* calls of an aligner that waits on a barrier of N parties are in flight
\* together: no call times out and correct() does not fail on the barrier.
C8_BarrierCallsRunTogether ==
    (aligner.kind = "barrier" /\ Len(lexicon) >= 2
        /\ use_concurrency >= Len(lexicon)) =>
        ~(pc = "failed" /\ error = "AssertionError")

\* C9: when parallel execution is selected but the sentence, an entry or
\* the aligner cannot be sent to a worker process, correct() does not fail:
\* it runs sequentially.
C9_FallsBackWhenNotTransferable ==
    (use_concurrency > 1 /\ Len(lexicon) > 1
        /\ (aligner.pickle_error # NoError \/ entry_pickle_error # NoError)
        /\ aligner.kind = "plain" /\ score_threshold.comparable
        /\ aligner.form # "tuple_conversion_gp") =>
        /\ pc \notin {"shutdown", "failed"}
        /\ pc \in {"sequential", "parallel", "done"} => tasks = NoTasks

\* C10: a malformed configuration (a negative concurrency degree, a
\* threshold that is not comparable) is rejected by the constructor, and
\* correct() never fails on the configuration.
C10_ConfigurationCheckedAtConstruction ==
    /\ pc \notin {"new", "config_error"} =>
          (use_concurrency >= 0 /\ score_threshold.comparable)
    /\ (pc = "failed" /\ aligner.form # "tuple_conversion_gp"
           /\ entry_pickle_error = NoError) => error # "TypeError"

(***************************************************************************)
(* Properties of LocalAlignment.                                           *)
(***************************************************************************)
\* A token that is not content: the gap, the region marker, whitespace.
IsGapToken(token) ==
    token \in {<<"-">>, <<"U2016">>}
        \/ DeleteChars(token, WhitespaceChars) = <<>>

\* The aligned streams have no position where both tokens are content.
NoContentPosition(a) ==
    \A k \in DOMAIN a.sentence_tokens :
        IsGapToken(a.sentence_tokens[k]) \/ IsGapToken(a.query_tokens[k])

\* C11: when the aligned token streams have no position at which both the
\* sentence token and the query token are content, align() returns without
\* raising and returns no candidate, whatever the score.
C11_NoCandidateWithoutContent ==
    (pc \in {"aligned", "failed"} /\ oracle # <<>>
        /\ NoContentPosition(oracle[1])) =>
        /\ alignment.raised = NoError
        /\ alignment.value = <<>>

(***************************************************************************)
(* Properties of GraphemePhoneme and of the converter                      *)
(***************************************************************************)

\* The four sequences of fields have one element per unit and the phoneme
\* units concatenate to the phoneme string.
Consistent(fields) ==
    /\ Join(fields.phoneme_list) = fields.phoneme_str
    /\ Len(fields.grapheme_list) = Len(fields.phoneme_list)
    /\ Len(fields.phoneme_list) = Len(fields.grapheme_spans)
    /\ Len(fields.grapheme_spans) = Len(fields.phoneme_spans)

\* C12: every GraphemePhoneme in existence, whether built by the converter,
\* by subsequence_covering_span, by from_components/from_dict or by the
\* constructor, has a phoneme_str that is the concatenation of its
\* phoneme_list and four sequences of one length; a constructor call whose
\* arguments break either raises ValueError and leaves no instance.
C12_InstancesConsistent ==
    /\ sentence_gp # NoneValue => Consistent(sentence_gp[1])
    /\ derived # NoneValue => Consistent(derived[1])
    /\ (pc = "constructed" /\ ~Consistent(constructor_args[1])) =>
           /\ derived = NoneValue
           /\ error = "ValueError"
    /\ (pc = "constructed" /\ Consistent(constructor_args[1])) =>
           /\ derived = constructor_args
           /\ error = NoError

\* A constructor call refused for a phoneme_str that is not the
\* concatenation of the units, the four sequences being of one length.
C12_Witness ==
    /\ pc = "constructed"
    /\ Len(constructor_args[1].grapheme_list) > 1
    /\ PostInitOk_without_concatenation(
           constructor_args[1].grapheme_list, constructor_args[1].phoneme_str,
           constructor_args[1].phoneme_list, constructor_args[1].grapheme_spans,
           constructor_args[1].phoneme_spans)
    /\ ~Consistent(constructor_args[1])
    /\ derived = NoneValue
    /\ error = "ValueError"

\* C13: from_components applied to the four components of a
\* GraphemePhoneme the converter built succeeds and gives the converter's
\* grapheme_spans and phoneme_spans back, also when units were dropped.
C13_ReconstructionKeepsSpans ==
    (pc = "rebuilt" /\ span = NoSpan) =>
        /\ derived # NoneValue
        /\ derived[1].grapheme_spans = sentence_gp[1].grapheme_spans
        /\ derived[1].phoneme_spans = sentence_gp[1].phoneme_spans

\* The units of g whose phoneme span overlaps the range start..end.
Overlapping(g, start, end) ==
    {i \in 1..Len(g.phoneme_spans) :
        g.phoneme_spans[i][2] > start /\ g.phoneme_spans[i][1] < end}

\* sub is made of the units i..j of g, whole: their lists, the text of g
\* from the grapheme start of unit i to the grapheme end of unit j, and
\* their spans counted from the start of unit i.
CoversUnits(sub, g, i, j) ==
    /\ sub.grapheme_list = SubSeq(g.grapheme_list, i, j)
    /\ sub.phoneme_list = SubSeq(g.phoneme_list, i, j)
    /\ sub.grapheme_str =
           SubSeq(g.grapheme_str, g.grapheme_spans[i][1] + 1,
                  g.grapheme_spans[j][2])
    /\ sub.phoneme_str =
           SubSeq(g.phoneme_str, g.phoneme_spans[i][1] + 1,
                  g.phoneme_spans[j][2])
    /\ Len(sub.grapheme_spans) = j - i + 1
    /\ Len(sub.phoneme_spans) = j - i + 1
    /\ \A k \in 1..(j - i + 1) :
           /\ sub.grapheme_spans[k][1] =
                  g.grapheme_spans[i + k - 1][1] - g.grapheme_spans[i][1]
           /\ sub.grapheme_spans[k][2] =
                  g.grapheme_spans[i + k - 1][2] - g.grapheme_spans[i][1]
           /\ sub.phoneme_spans[k][1] =
                  g.phoneme_spans[i + k - 1][1] - g.phoneme_spans[i][1]
           /\ sub.phoneme_spans[k][2] =
                  g.phoneme_spans[i + k - 1][2] - g.phoneme_spans[i][1]
    /\ sub.grapheme_spans[1][1] = 0
    /\ sub.phoneme_spans[1][1] = 0

\* The subsequence returned is none where absent holds, and otherwise the
\* units from the first to the last overlapping one.
SubsequenceIs(absent) ==
    LET g == sentence_gp[1]
        units == Overlapping(g, span[1], span[2])
    IN  IF absent \/ units = {} THEN derived = NoneValue
        ELSE /\ derived # NoneValue
             /\ CoversUnits(derived[1], g,
                            CHOOSE i \in units : \A k \in units : i <= k,
                            CHOOSE j \in units : \A k \in units : j >= k)

\* C14 as stated: subsequence_covering_span(s, e) returns none exactly when
\* no unit has a phoneme span with end > s and start < e, and otherwise
\* the whole units from the first to the last such unit, with the literal
\* substring of grapheme_str they span and spans counted from 0.
C14_NoneExactlyWithoutOverlap ==
    pc = "sub" => SubsequenceIs(FALSE)

\* C14 amended: the same, except that none is also returned whenever
\* s >= e, whatever the units.
C14_SubsequenceCoversWholeUnits ==
    pc = "sub" => SubsequenceIs(span[1] >= span[2])

\* A range that starts inside one unit and ends inside a later one, with
\* text between the two that belongs to no unit.
C14_Witness ==
    /\ pc = "sub"
    /\ derived # NoneValue
    /\ Len(derived[1].grapheme_list) = 2
    /\ span[1] > sentence_gp[1].phoneme_spans[1][1]
    /\ Len(derived[1].grapheme_str) > Len(Join(derived[1].grapheme_list))
    /\ span[2] < sentence_gp[1].phoneme_spans[2][2]

\* C15: the segments of tokenize(text) partition the text: the first starts
\* at 0, each starts where the one before ends, the last ends at
\* len(text), each is as long as its range, their texts concatenated are
\* the input, and the empty string has no segment.
C15_SegmentsPartitionText ==
    pc # "text" =>
        /\ (sentence = <<>>) <=> (segments = <<>>)
        /\ segments # <<>> =>
               /\ segments[1].start = 0
               /\ segments[Len(segments)].end = Len(sentence)
        /\ \A k \in DOMAIN segments :
               /\ segments[k].end - segments[k].start = Len(segments[k].raw)
               /\ segments[k].raw # <<>>
               /\ k > 1 => segments[k].start = segments[k - 1].end
        /\ Join([k \in DOMAIN segments |-> segments[k].raw]) = sentence

\* An ideograph, Latin letters and a punctuation mark, tokenized into
\* three segments.
C15_Witness ==
    /\ pc = "tokenized"
    /\ Len(segments) = 3
    /\ segments[1].raw = <<"U4F60">>
    /\ segments[2].raw = <<"b", "a">>
    /\ segments[3].raw = <<"!">>

\* A segment that is a run of characters that are neither Latin letters
\* nor ideographs.
IsOtherRun(segment) ==
    \A i \in DOMAIN segment.raw : TokenClass(segment.raw[i]) = "other"

\* C16: only a run of Latin letters is treated as alphabetic: a run of
\* other characters (digits, punctuation, whitespace, letters of other
\* scripts) gives no unit in convert_to_grapheme_phoneme and, when it is
\* the whole text and neither stripping option is set, comes out of
\* convert() unchanged.
C16_OnlyLatinRunsAlphabetic ==
    pc \in {"gp", "rebuilt", "reloaded"} =>
        \A k \in DOMAIN segments :
            IsOtherRun(segments[k]) =>
                /\ \A u \in DOMAIN sentence_gp[1].grapheme_spans :
                       \/ sentence_gp[1].grapheme_spans[u][2]
                              <= segments[k].start
                       \/ sentence_gp[1].grapheme_spans[u][1]
                              >= segments[k].end
                /\ (/\ Len(segments) = 1
                    /\ ~converter.strip_whitespace
                    /\ ~converter.remove_punctuation) => ipa = sentence

\* The text is one token of Latin letters.
OneLatinToken ==
    /\ Len(segments) = 1
    /\ \A i \in DOMAIN sentence : sentence[i] \in LatinLetters

\* The phonetic forms of the letters of token, without the whitespace
\* around each, one space between two.
SpelledOut(token) ==
    JoinWith(<<" ">>,
             [i \in DOMAIN token |-> Strip(eng_to_ipa_convert(<<token[i]>>))])

\* C17: an alphabetic token is phoneticized letter by letter, the forms
\* joined by one space, exactly when it is all upper case and longer than
\* one character; a single upper-case letter and a token with a lower-case
\* letter are phoneticized as one word (convert() without whitespace
\* stripping, which would remove the joining spaces, and without the
\* removal of stress and tone marks from the forms).
C17_AcronymsSpelledOut ==
    (/\ pc \notin {"text", "tokenized"}
     /\ OneLatinToken
     /\ ~converter.strip_whitespace
     /\ ~converter.remove_stress_marks
     /\ ~converter.remove_tone_marks) =>
        ipa = IF (\A i \in DOMAIN sentence : sentence[i] \in LatinUpper)
                  /\ Len(sentence) > 1
              THEN SpelledOut(sentence)
              ELSE eng_to_ipa_convert(sentence)

\* An acronym of two letters converted: two forms and one space.
C17_Witness ==
    /\ pc = "converted"
    /\ sentence = <<"A", "A">>
    /\ phoneticizer = "padded"
    /\ ~converter.strip_whitespace
    /\ ipa = <<"e", "n", "(", "A", ")", " ", "e", "n", "(", "A", ")">>

\* C18: the GraphemePhoneme g of convert_to_grapheme_phoneme(text) has the
\* untouched text as grapheme_str, a unit of its own for each ideograph
\* (none for one whose phonetic form is empty), units that are the slices
\* of grapheme_str at their spans, spans ascending without overlap, and no
\* unit with an empty phonetic form.
C18_ConvertedStructure ==
    sentence_gp # NoneValue =>
        LET g == sentence_gp[1]
        IN  /\ g.grapheme_str = sentence
            /\ \A i \in DOMAIN sentence :
                   sentence[i] \in ChineseChars =>
                       \/ \E u \in DOMAIN g.grapheme_spans :
                              g.grapheme_spans[u] = <<i - 1, i>>
                       \/ sanitize_phoneme(hanzi_to_ipa(<<sentence[i]>>))
                              = <<>>
            /\ \A u \in DOMAIN g.grapheme_list :
                   /\ (\E i \in DOMAIN g.grapheme_list[u] :
                           g.grapheme_list[u][i] \in ChineseChars) =>
                          Len(g.grapheme_list[u]) = 1
                   /\ g.grapheme_spans[u][1] < g.grapheme_spans[u][2]
                   /\ g.grapheme_list[u] =
                          SubSeq(sentence, g.grapheme_spans[u][1] + 1,
                                 g.grapheme_spans[u][2])
                   /\ u > 1 =>
                          g.grapheme_spans[u - 1][2] <= g.grapheme_spans[u][1]
                   /\ g.phoneme_list[u] # <<>>

\* A text of two ideographs and a word of which the second ideograph has
\* no phonetic form: two units, the text kept whole.
C18_Witness ==
    /\ pc = "gp"
    /\ phoneticizer = "sparse"
    /\ sentence = <<"U4F60", "U597D", "a">>
    /\ sentence_gp[1].grapheme_str = sentence
    /\ sentence_gp[1].grapheme_list = <<<<"U4F60">>, <<"a">>>>
    /\ sentence_gp[1].grapheme_spans = <<<<0, 1>>, <<2, 3>>>>

(***************************************************************************)
(* Properties of the overlap scan and of the merge                         *)
(***************************************************************************)

\* Candidate a comes before candidate b in the order (start ascending, end
\* descending).
ScanBefore(a, b) ==
    \/ a.start < b.start
    \/ a.start = b.start /\ a.end > b.end

\* The candidates in scan order; two with the same range stay in the order
\* they were given in.
ScanOrder(matches) ==
    LET n == Len(matches)
        ahead(i) == {j \in 1..n :
                        \/ ScanBefore(matches[j], matches[i])
                        \/ /\ ~ScanBefore(matches[i], matches[j])
                           /\ j < i}
    IN  [k \in 1..n |->
            matches[CHOOSE i \in 1..n : Cardinality(ahead(i)) = k - 1]]

\* currentEnd when the scan reaches place k, the places in chosen having
\* been accepted.
CurrentEnd(ordered, chosen, k) ==
    LET earlier == {j \in chosen : j < k}
    IN  IF earlier = {} THEN -1
        ELSE ordered[CHOOSE j \in earlier : \A i \in earlier : i <= j].end

\* The places the scan accepts: a place is accepted exactly when its start
\* is at or after currentEnd.
ScanAccepts(ordered) ==
    CHOOSE chosen \in SUBSET DOMAIN ordered :
        \A k \in DOMAIN ordered :
            k \in chosen <=> ordered[k].start >= CurrentEnd(ordered, chosen, k)

\* The elements of seq at the places in chosen, in order.
Restrict(seq, chosen) ==
    LET place(k) == CHOOSE i \in chosen :
                        Cardinality({j \in chosen : j < i}) = k - 1
    IN  [k \in 1..Cardinality(chosen) |-> seq[place(k)]]

RangesOf(matches) ==
    [k \in DOMAIN matches |-> <<matches[k].start, matches[k].end>>]

\* C19: the accepted candidates are those of the scan over the order
\* (start ascending, end descending) with currentEnd starting at -1: a
\* candidate is accepted iff its start >= currentEnd, which then becomes
\* its end; so one that starts where the last accepted one ends is
\* accepted, of those sharing a start only the longest can be (the
\* candidates having 0 <= start < end), and [(0,5),(2,8),(6,9)] gives
\* [(0,5),(6,9)].
C19_AcceptedByScan ==
    pc = "filtered" =>
        LET ordered == ScanOrder(collected)
        IN  /\ filtered_matches = Restrict(ordered, ScanAccepts(ordered))
            /\ \A k \in DOMAIN ordered :
                   (k > 1 /\ ordered[k - 1] \in Range(filtered_matches)
                          /\ ordered[k].start = ordered[k - 1].end) =>
                       ordered[k] \in Range(filtered_matches)
            /\ ProperRanges(collected) =>
                   \A a \in Range(filtered_matches) :
                       \A c \in Range(collected) :
                           c.start = a.start => c.end <= a.end
            /\ RangesOf(collected) = ExampleRanges =>
                   RangesOf(filtered_matches) = <<<<0, 5>>, <<6, 9>>>>

\* The worked example resolved.
C19_Witness ==
    /\ pc = "filtered"
    /\ RangesOf(collected) = ExampleRanges
    /\ RangesOf(filtered_matches) = <<<<0, 5>>, <<6, 9>>>>

\* The orders in which the n entries of the lexicon can be iterated.
IterationOrders(n) ==
    {p \in [1..n -> 1..n] : \A i, j \in 1..n : i # j => p[i] # p[j]}

RECURSIVE PlansInOrder(_, _)
\* The plans _iter_replacements yields when the lexicon iterates its
\* entries in the order order[1], ..., order[n].
PlansInOrder(order, n) ==
    IF n = 0 THEN <<>>
    ELSE PlansInOrder(order, n - 1)
         \o align_entry(AlignerReturns(order[n]), lexicon[order[n]],
                        score_threshold).plans

\* What correct(sentence) returns with the lexicon iterated in that order.
OutputInOrder(order) ==
    correct_from_candidates(
        sentence_gp[1], sort_candidates(PlansInOrder(order, Len(lexicon))))

\* C20: the output of correct() does not depend on the order in which the
\* lexicon iterates its entries: for the same sentence, entries and
\* aligner answers, every order gives the output returned, also when two
\* entries give candidates of the same score and range.
C20_MergeOrderIrrelevant ==
    (pc = "done" /\ public_call = "correct" /\ sentence # <<>>) =>
        \A order \in IterationOrders(Len(lexicon)) :
            OutputInOrder(order) = output

(***************************************************************************)
(* Properties of a correct() call as a whole                               *)
(***************************************************************************)

\* C21: correct() returns, and selects, only after every call it
\* dispatched (one per lexicon entry) has completed and given its result:
\* when it has returned no call is pending, taken or running and every entry has
\* been aligned, nothing is selected before, and a call is cancelled only
\* because the result of an earlier one raised, in which case correct()
\* does not return but raises, once no call is pending, taken or running.
C21_ReturnsAfterEveryTask ==
    /\ (pc = "done" /\ sentence # <<>>) =>
           /\ \A i \in DOMAIN tasks : tasks[i].state = "yielded"
           /\ align_calls = Len(lexicon)
           /\ next_entry = Len(lexicon) + 1
    /\ (candidates # <<>> \/ filtered_matches # <<>>) => pc = "done"
    /\ pc = "failed" =>
           \A i \in DOMAIN tasks : tasks[i].state \notin {"pending", "taken", "running"}
    /\ \A i \in DOMAIN tasks :
           tasks[i].state = "cancelled" =>
               /\ pc \in {"shutdown", "failed"}
               /\ error # NoError
               /\ tasks[next_entry].state = "raised"
               /\ next_entry < i

\* A parallel correct() has returned: the first entry gave a plan of the
\* highest score, and a later entry's call was still made and its plan of
\* a lower score collected.
C21_Witness ==
    /\ pc = "done"
    /\ Len(tasks) >= 2
    /\ \A i \in DOMAIN tasks : tasks[i].state = "yielded"
    /\ Len(collected) >= 2
    /\ collected[1].score = 2
    /\ collected[1].replacement = lexicon[1]
    /\ collected[Len(collected)].score = 1
    /\ collected[Len(collected)].replacement = lexicon[Len(lexicon)]

(***************************************************************************)
(* The range LocalAlignment reports                                        *)
(***************************************************************************)

\* The positions of the aligned streams where both tokens are content.
ContentPositions(a) ==
    {k \in DOMAIN a.sentence_tokens :
        ~IsGapToken(a.sentence_tokens[k]) /\ ~IsGapToken(a.query_tokens[k])}

RECURSIVE CursorBefore(_, _)
\* The cursor on reaching position k: the lengths of the content tokens of
\* the sentence side at the positions before k, added up from 0.
CursorBefore(tokens, k) ==
    IF k <= 1 THEN 0
    ELSE CursorBefore(tokens, k - 1)
         + (IF IsGapToken(tokens[k - 1]) THEN 0 ELSE Len(tokens[k - 1]))

\* C22: the result of align() carries the matched phoneme range found by
\* the cursor walk over the aligned streams: start is the cursor at the
\* first position where both sides are content, end the cursor just after
\* the last such position, and 0 <= start < end <= the length of the
\* sentence side's content.
C22_RangeFromCursorWalk ==
    (pc \in {"aligned", "failed"} /\ oracle # <<>>
        /\ ContentPositions(oracle[1]) # {}) =>
        LET a == oracle[1]
            first == CHOOSE k \in ContentPositions(a) :
                         \A j \in ContentPositions(a) : k <= j
            last  == CHOOSE k \in ContentPositions(a) :
                         \A j \in ContentPositions(a) : k >= j
        IN  /\ alignment.raised = NoError
            /\ alignment.value # <<>>
            /\ {"start", "end"} \subseteq DOMAIN alignment.value[1]
            /\ alignment.value[1].start = CursorBefore(a.sentence_tokens, first)
            /\ alignment.value[1].end = CursorBefore(a.sentence_tokens, last + 1)
            /\ 0 <= alignment.value[1].start
            /\ alignment.value[1].start < alignment.value[1].end
            /\ alignment.value[1].end
                   <= CursorBefore(a.sentence_tokens, Len(a.sentence_tokens) + 1)

(***************************************************************************)
(* Statements about construction and normalization                         *)
(***************************************************************************)

\* The phoneme spans start at 0, each starts where the one before ends, and
\* span i is as long as phoneme unit i.
ContiguousPhonemeSpans(fields) ==
    \A k \in DOMAIN fields.phoneme_spans :
        /\ fields.phoneme_spans[k][1] =
               (IF k = 1 THEN 0 ELSE fields.phoneme_spans[k - 1][2])
        /\ k \in DOMAIN fields.phoneme_list =>
               fields.phoneme_spans[k][2] - fields.phoneme_spans[k][1]
                   = Len(fields.phoneme_list[k])

\* C23: construction checks the contiguity of the phoneme spans: every
\* instance in existence has phoneme_spans that start at 0, are contiguous
\* and ascending and as long as their units, and a constructor call whose
\* phoneme_spans break this raises ValueError and leaves no instance.
C23_ConstructionChecksContiguity ==
    /\ sentence_gp # NoneValue => ContiguousPhonemeSpans(sentence_gp[1])
    /\ derived # NoneValue => ContiguousPhonemeSpans(derived[1])
    /\ (pc = "constructed" /\ ~ContiguousPhonemeSpans(constructor_args[1])) =>
           /\ derived = NoneValue
           /\ error = "ValueError"

\* What the phoneticizers answer for the grapheme of one unit: an ideograph
\* goes to the Chinese one, a word to the English one.
PhoneticizerOutput(grapheme) ==
    IF \E i \in DOMAIN grapheme : grapheme[i] \in ChineseChars
    THEN hanzi_to_ipa(grapheme)
    ELSE convert_english(grapheme)

\* The characters of s that belong to class, in order.
CharsOfClass(s, class) == SelectSeq(s, LAMBDA c : c \in class)

\* C24 as stated: the options govern the normalization of the units of
\* convert_to_grapheme_phoneme: the tone characters of the phoneticizer's
\* output are still in the unit unless remove_tone_marks is set, the stress
\* marks unless remove_stress_marks is set, the punctuation unless
\* remove_punctuation is set, and with every option off the unit is the
\* phoneticizer's output unchanged.
C24_NormalizationGovernedByOptions ==
    (pc = "gp" /\ sentence_gp # NoneValue) =>
        LET g == sentence_gp[1]
        IN  \A u \in DOMAIN g.phoneme_list :
                LET raw  == PhoneticizerOutput(g.grapheme_list[u])
                    unit == g.phoneme_list[u]
                IN  /\ ~converter.remove_tone_marks =>
                           CharsOfClass(unit, ToneChars)
                               = CharsOfClass(raw, ToneChars)
                    /\ ~converter.remove_stress_marks =>
                           CharsOfClass(unit, StressChars)
                               = CharsOfClass(raw, StressChars)
                    /\ ~converter.remove_punctuation =>
                           CharsOfClass(unit, PunctuationChars)
                               = CharsOfClass(raw, PunctuationChars)
                    /\ converter = DefaultConverter => unit = raw

\* C24, amended: whatever the options, every phoneme unit of
\* convert_to_grapheme_phoneme is the phoneticizer's output for its
\* grapheme with every tone character, stress mark, whitespace character
\* and punctuation character removed, the other characters kept in order.
C24_UnitsAlwaysStripped ==
    (pc = "gp" /\ sentence_gp # NoneValue) =>
        LET g == sentence_gp[1]
            stripped == ToneChars \cup StressChars \cup WhitespaceChars
                            \cup PunctuationChars
        IN  \A u \in DOMAIN g.phoneme_list :
                /\ g.phoneme_list[u] =
                       SelectSeq(PhoneticizerOutput(g.grapheme_list[u]),
                                 LAMBDA c : c \notin stripped)
                /\ \A i \in DOMAIN g.phoneme_list[u] :
                       g.phoneme_list[u][i] \notin stripped

\* One ideograph converted with every option off by phoneticizers whose
\* answer carries a stress mark, brackets and a tone digit: the unit has
\* none of them.
C24_Witness ==
    /\ pc = "gp"
    /\ phoneticizer = "marked"
    /\ converter = DefaultConverter
    /\ sentence = <<"U4F60">>
    /\ hanzi_to_ipa(sentence) = <<"U02C8", "z", "h", "(", "U4F60", ")", "1">>
    /\ sentence_gp[1].phoneme_list = <<<<"z", "h", "U4F60">>>>

(***************************************************************************)
(* What a correct() call leaves alone                                      *)
(***************************************************************************)

\* C25: no step of a correct() call, sequential or parallel, and no return
\* from one (every step but the construction, which installs the aligner,
\* and a load of the lexicon from a file between two calls) changes the
\* lexicon (its keys or any field of an entry), the
\* threshold, the aligner or the concurrency degree, and from its
\* conversion to the return of the call the sentence's GraphemePhoneme is
\* not changed either; the entry a collected plan substitutes is an entry
\* of the lexicon as it is.
C25_CallsChangeNothingOutside ==
    [][\/ Construct
       \/ \E file \in LexiconFiles : LoadFrom(file)
       \/ /\ UNCHANGED <<lexicon, score_threshold, aligner, use_concurrency>>
          /\ pc \in {"sequential", "parallel", "shutdown"} =>
                 UNCHANGED sentence_gp
          /\ \A k \in DOMAIN collected' :
                 \E i \in DOMAIN lexicon :
                     collected'[k].replacement = lexicon[i]
      ]_vars

\* A parallel call over two entries that has substituted and returned its
\* text, the corrector's lexicon being the entries it was built with.
C25_Witness ==
    /\ pc = "done"
    /\ Len(lexicon) >= 2
    /\ should_parallelize(lexicon).value
    /\ \A i \in DOMAIN tasks : tasks[i].state = "yielded"
    /\ filtered_matches # <<>>
    /\ output # sentence
    /\ lexicon = [i \in 1..Len(lexicon) |-> Entry(i)]
    /\ sentence_gp = convert_to_grapheme_phoneme(DefaultConverter, sentence)

(***************************************************************************)
(* What overlap resolution always accepts                                  *)
(***************************************************************************)

\* The indices of the matches that start leftmost and, among those, end
\* last.
LeftmostLongest(matches) ==
    {k \in DOMAIN matches :
        \A j \in DOMAIN matches :
            \/ matches[k].start < matches[j].start
            \/ /\ matches[k].start = matches[j].start
               /\ matches[k].end >= matches[j].end}

\* C26: when the best-score candidates are not empty and every start is
\* >= 0, overlap resolution accepts at least one of them: the first one
\* accepted is the leftmost candidate, the longest of those sharing its
\* start (the earliest given of several with that range), so the accepted
\* list is not empty, and the text correct() returns is spliced: it begins
\* with the text before that candidate followed by its replacement.
C26_LeftmostBestAlwaysAccepted ==
    (/\ pc \in {"filtered", "applied"}
     /\ collected # <<>>
     /\ \A k \in DOMAIN collected : collected[k].start >= 0) =>
        LET first == CHOOSE k \in LeftmostLongest(collected) :
                         \A j \in LeftmostLongest(collected) : k <= j
            head  == PySlice(sentence_gp[1].grapheme_str, 0,
                             collected[first].start)
                         \o collected[first].replacement.grapheme_str
        IN  /\ LeftmostLongest(collected) # {}
            /\ filtered_matches # <<>>
            /\ filtered_matches[1] = collected[first]
            /\ pc = "applied" =>
                   /\ Len(output) >= Len(head)
                   /\ SubSeq(output, 1, Len(head)) = head

\* Three candidates from 0 on, two of them starting at 0: the longer of the
\* two is accepted, the others overlap it, and one substitution is made.
C26_Witness ==
    /\ pc = "applied"
    /\ Len(collected) = 3
    /\ <<collected[1].start, collected[1].end>> = <<0, 2>>
    /\ <<collected[2].start, collected[2].end>> = <<0, 4>>
    /\ <<collected[3].start, collected[3].end>> = <<2, 5>>
    /\ filtered_matches = <<collected[2]>>
    /\ output = lexicon[2].grapheme_str \o <<"e">>

=============================================================================
